---- MODULE Spec2Model ----
(***************************************************************************)
(* Model of the deferred destruction queue (vulkan_cleanup.rs), the        *)
(* asynchronous asset pipeline (vulkan_assets.rs) and the frame loop that  *)
(* drives them (render_plugin.rs).                                         *)
(***************************************************************************)
EXTENDS Integers, Sequences, FiniteSets, TLC

(* ------------------------------ bounds --------------------------------- *)
\* number of asset identities (HandleId) of the one asset type modelled
NumHandles == 1
\* number of asset change notifications the host emits over a run
MaxEdits == 2
\* number of destruction events sent by systems other than the asset pipeline
MaxOther == 3
\* SignalNextFrame messages the main thread may have outstanding in the channel
MaxPendingSignals == 1
\* device alignments range over the powers of two up to 2^MaxAlignExp
MaxAlignExp == 6
\* identities of mesh assets
NumMeshes == 2
\* ray tracing pipelines published over a run
MaxPipelines == 1
\* recomputations of the SBT over a run
MaxSbtRuns == 2
\* renderables resolved by update_scene
MaxInstances == 5
\* distinct sets of transforms of the renderables
NumPoses == 2
\* update_scene calls over a run
MaxSceneRuns == 3
\* shader loads and reloads over a run
MaxLoads == 2
\* buffers created by components over a run (at most MaxOther)
MaxBuffers == 2

\* primitives of a mesh and images of a glTF document
MaxPrims == 2
NumImages == 1

\* device addresses the allocator may place a scratch buffer at
MaxAddress == 20
\* image views passed to get_texture_descriptor_index
NumViews == 2

Handles == 1..NumHandles

(* ------------------------------ events --------------------------------- *)
\* VkCleanupEvent: <<variant, handle>>
SignalNextFrame == <<"SignalNextFrame", 0>>
SignalShutdown == <<"SignalShutdown", 0>>

IsSignal(e) == e[1] \in {"SignalNextFrame", "SignalShutdown"}

\* Image::destroy_asset: the view first, then the image
destroy_asset(asset) == << <<"ImageView", asset>>, <<"Image", asset>> >>

\* FrameResources.per_frame has two entries
FramesInFlight == 2

\* cleanup_render_resources: uniform buffer, query buffer and fence of each
\* per-frame resource set
RECURSIVE cleanup_render_resources(_)
cleanup_render_resources(n) ==
    IF n = 0 THEN <<>>
    ELSE cleanup_render_resources(n - 1) \o
         << <<"Buffer", 100 + n>>, <<"Buffer", 200 + n>>, <<"Fence", n>> >>

\* buffers by native handle; 0 is the null handle
OtherEvents == {<<"Buffer", k>> : k \in 0..MaxOther}

AssetEventsOf == {<<"ImageView", p>> : p \in 1..MaxEdits} \cup {<<"Image", p>> : p \in 1..MaxEdits}

RenderResourceEvents == {cleanup_render_resources(FramesInFlight)[i] : i \in 1..(3 * FramesInFlight)}

\* native handles a run can hand out: those of the buffers above, and those
\* of one mesh preparation (14 buffers and objects, 3 per texture)
MaxNative == MaxOther + 14 + 3 * NumImages

\* the events that destroy_asset of a mesh and the scene send
NativeEvents ==
    {<<k, h>> : k \in {"Buffer", "AccelerationStructure", "ImageView", "Image"}, h \in 0..MaxNative}

DestructionEvents == OtherEvents \cup AssetEventsOf \cup RenderResourceEvents \cup NativeEvents

(* ------------------------------ state ---------------------------------- *)
VARIABLES
    mainpc,         \* position of the main thread in the frame
    stage_todo,     \* systems of RenderSet::Extract that have not run this frame
    assets,         \* identities present in the host's Assets<T> store
    asset_events,   \* AssetEvent<T> notifications not yet read by Extract
    send_extracted, \* channel Extract -> Prepare worker: <<handle_id, snapshot>>
    wpc,            \* Prepare worker: "recv", "preparing", "dead"
    wcur,           \* item the Prepare worker is preparing
    recv_prepared,  \* channel Prepare worker -> Publish: <<handle_id, prepared>>
    lookup,         \* VulkanAssets.lookup as a set of <<handle_id, prepared>> entries
    nsnap,          \* snapshots sent so far (the snapshot's content)
    nedits,         \* change notifications emitted so far
    nother,         \* destruction events sent by other systems so far
    cleanup_chan,   \* channel to the cleanup worker
    cpc,            \* cleanup worker: "recv", "wait_idle", "finished"
    cycle_buffer,   \* the worker's ring of pending lists
    fence,          \* the frame fence is signalled
    gpu_frames,     \* frame command buffers submitted and not yet completed
    execLog,        \* history: executed destruction events, in order
    age,            \* history: next-frame signals processed since an event was received
    hazard,         \* history: frames an event must outlive that are not yet complete
    kpending,       \* history: the frame in which the event was sent is not yet submitted
    installLog,     \* history: <<handle_id, prepared, position in its Publish run>>, in install order
    destroyed,      \* history: how often each prepared asset was passed to destroy_asset
    ranBusy,        \* history: main-thread stages that ran while the worker was preparing
    shaders,        \* identities present in Assets<Shader>
    dep_events,     \* Events<AssetEvent<Shader>>: shaders with an unread change notification
    promoted,       \* Events<ComposedAssetEvent<T>>: identities a Modified was written for
    nloads,         \* shader loads and reloads so far
    rtprops,        \* the hardware's ray tracing pipeline properties
    rt_pipeline,    \* the prepared ray tracing pipeline (0: none)
    meshes,         \* identities of the prepared meshes
    sbt,            \* the SBT resource
    sbt_changed,    \* resource_changed of the prepared meshes or pipelines
    sbtLog,         \* history: one record per completed update_sbt
    scene,          \* the Scene resource
    sceneLog,       \* history: one record per update_scene call
    buffer_to_allocation, \* AllocatorState.buffer_to_allocation: <<handle, allocation>>
    nbuf,           \* native buffer handles handed out so far
    buffers,        \* history: every Buffer returned by create_buffer
    freed,          \* history: native handles passed to vkDestroyBuffer
    released,       \* history: positions in buffers of the buffers their owner gave up
    use,            \* history: the last map_buffer or upload_buffer call and its outcome
    image_to_allocation, \* AllocatorState.image_to_allocation: <<handle, allocation>>
    g_descriptors,  \* GDescriptorMap: g_descriptor_map and g_descriptor_idx_gen
    prep,           \* the mesh Prepare worker: position, resources and history
    scratch_use,    \* history: the scratch address the last build command was given
    thr,            \* every thread's position inside the device call it is making
    queue,          \* RenderDeviceImpl.queue: the thread holding the Mutex, or "free"
    asset_command_pool, \* RenderDeviceImpl.asset_command_pool: holder of the Mutex, or "free"
    g_descriptors_lock, \* RenderDeviceImpl.g_descriptors: holder of the Mutex, or "free"
    slotLog,        \* history: <<view, index, "new" or "memo">> of every returned index
    trace,          \* the instance records of the TLAS, the skybox, the frame last recorded
    alloc           \* RenderDeviceImpl.alloc: the writer holding the RwLock, and its readers

pipeVars == <<assets, asset_events, send_extracted, wpc, wcur, recv_prepared, lookup, nsnap,
              nedits, installLog, destroyed, ranBusy>>
cleanVars == <<cleanup_chan, cpc, cycle_buffer, execLog, age>>
gpuVars == <<fence, gpu_frames>>
composedVars == <<shaders, dep_events, promoted, nloads>>
sbtVars == <<rtprops, rt_pipeline, meshes, sbt, sbt_changed, sbtLog>>
sceneVars == <<scene, sceneLog>>
bufVars == <<buffer_to_allocation, nbuf, buffers, freed, released>>
devVars == <<use, g_descriptors, prep>>
imgVars == <<image_to_allocation>>
lockVars == <<thr, queue, asset_command_pool, g_descriptors_lock, slotLog, alloc>>
auxVars == <<scratch_use, lockVars, trace>>
extVars == <<composedVars, sbtVars, sceneVars, bufVars, devVars, imgVars, auxVars>>
\* everything but auxVars
coreVars == <<mainpc, stage_todo, nother, hazard, kpending, pipeVars, cleanVars, gpuVars,
              composedVars, sbtVars, sceneVars, bufVars, devVars, imgVars>>
vars == <<mainpc, stage_todo, nother, hazard, kpending, pipeVars, cleanVars, gpuVars, extVars>>

(* ------------------------------ helpers -------------------------------- *)
RECURSIVE Flatten(_)
Flatten(lists) == IF lists = <<>> THEN <<>> ELSE Head(lists) \o Flatten(Tail(lists))

Range(s) == {s[i] : i \in 1..Len(s)}

Count(s, x) == Cardinality({i \in 1..Len(s) : s[i] = x})

Perms(S) == {s \in [1..Cardinality(S) -> S] : \A i, j \in 1..Cardinality(S) : s[i] = s[j] => i = j}

\* crossbeam unbounded channel: send appends, recv takes the head
ChanSend(chan, msgs) == chan \o msgs

\* VkCleanup::send of a sequence of destruction events by the main thread
\* (history: each event remembers the frames the GPU still holds)
MainSends(evs) ==
    /\ cleanup_chan' = ChanSend(cleanup_chan, evs)
    /\ hazard' = [e \in DestructionEvents |->
                    IF e \in Range(evs) /\ ~IsSignal(e) THEN gpu_frames ELSE hazard[e]]
    /\ kpending' = [e \in DestructionEvents |->
                    IF e \in Range(evs) /\ ~IsSignal(e) THEN TRUE ELSE kpending[e]]

(* ------------------------- cleanup worker ------------------------------ *)
\* the ring is created with three empty lists
RingSize == 3

\* variant: a ring of two lists
NewCycleBufferTwo == [i \in 1..2 |-> <<>>]

NewCycleBuffer == [i \in 1..RingSize |-> <<>>]

\* one executed event, with what was true when it was executed (whether the
\* GPU queue was idle is recorded for the shutdown flush only)
ExecEntry(ev, via, slot, pos, ringLen) ==
    [ev |-> ev, via |-> via,
     age |-> IF via = "frame" THEN age[ev] + 1 ELSE age[ev],
     hazard |-> hazard[ev], kpending |-> kpending[ev],
     idle |-> via = "shutdown" => gpu_frames = 0,
     slot |-> slot, pos |-> pos, back |-> slot = ringLen]

ExecList(events, via, slot, ringLen) ==
    [i \in 1..Len(events) |-> ExecEntry(events[i], via, slot, i, ringLen)]

RECURSIVE ExecLists(_, _, _, _)
ExecLists(lists, via, slot, ringLen) ==
    IF lists = <<>> THEN <<>>
    ELSE ExecList(Head(lists), via, slot, ringLen) \o ExecLists(Tail(lists), via, slot + 1, ringLen)

\* variant: the event is put at the head of the newest list
PushBackAtHead(ring, event) ==
    [ring EXCEPT ![Len(ring)] = <<event>> \o @]

\* event => cycle_buffer.back_mut().unwrap().push(event)
PushBack(ring, event) ==
    [ring EXCEPT ![Len(ring)] = Append(@, event)]

\* variant: pop_back instead of pop_front
PoppedSlotBack(ring) == Len(ring)

\* the list popped on SignalNextFrame: cycle_buffer.pop_front()
PoppedSlot(ring) == 1

\* variant: the drained list is not pushed back
RecycleNoPushBack(ring, slot) ==
    [j \in 1..(Len(ring) - 1) |-> IF j < slot THEN ring[j] ELSE ring[j + 1]]

\* the ring after the popped list was drained and pushed to the back
Recycle(ring, slot) ==
    [j \in 1..(Len(ring) - 1) |-> IF j < slot THEN ring[j] ELSE ring[j + 1]] \o << <<>> >>

\* variant: the flush does not wait for the queue
QueueIdleNoWait == TRUE

\* variant: the idle wait never returns
QueueIdleNever == FALSE

\* device.wait_idle(): queue_wait_idle returns once no submission is unfinished
QueueIdle == gpu_frames = 0

\* variant: the shutdown flush leaves out the list being filled
DrainedListsButBack(ring) == SubSeq(ring, 1, Len(ring) - 1)

\* the lists executed by the shutdown flush: cycle_buffer.drain(..)
DrainedLists(ring) == ring

\* variant: the allocation of an executed buffer is never freed
HashMapRemoveNothing(map, key) == map

\* HashMap::remove: the entry of the key, if any, is taken out
HashMapRemove(map, key) == {en \in map : en[1] # key}

\* VkCleanupEvent::execute over a list: a Buffer event frees the allocation
\* recorded for its handle, if there is one, and destroys the native buffer
RECURSIVE ExecuteAll(_, _)
ExecuteAll(events, map) ==
    IF events = <<>> THEN map
    ELSE ExecuteAll(Tail(events),
                    IF Head(events)[1] = "Buffer" THEN HashMapRemove(map, Head(events)[2]) ELSE map)

\* VkCleanupEvent::execute over a list: an Image event frees the allocation
\* recorded for its handle, if there is one, and destroys the native image
RECURSIVE ExecuteAllImages(_, _)
ExecuteAllImages(events, map) ==
    IF events = <<>> THEN map
    ELSE ExecuteAllImages(Tail(events),
                          IF Head(events)[1] = "Image" THEN HashMapRemove(map, Head(events)[2])
                          ELSE map)

\* the non-null native buffers a list of events destroys
DestroyedBuffers(events) ==
    {events[i][2] : i \in {j \in 1..Len(events) : events[j][1] = "Buffer"}} \ {0}

CleanupPush ==
    /\ cpc = "recv"
    /\ cleanup_chan # <<>>
    /\ ~IsSignal(Head(cleanup_chan))
    /\ cleanup_chan' = Tail(cleanup_chan)
    /\ cycle_buffer' = PushBack(cycle_buffer, Head(cleanup_chan))
    /\ age' = [age EXCEPT ![Head(cleanup_chan)] = 0]
    /\ UNCHANGED <<cpc, execLog, mainpc, stage_todo, nother, hazard, kpending, pipeVars, gpuVars>>
    /\ UNCHANGED extVars

CleanupNextFrame ==
    /\ cpc = "recv"
    /\ cleanup_chan # <<>>
    /\ Head(cleanup_chan) = SignalNextFrame
    /\ cleanup_chan' = Tail(cleanup_chan)
    /\ LET slot == PoppedSlot(cycle_buffer)
           events == cycle_buffer[slot]
           rest == Flatten(Recycle(cycle_buffer, slot))
       IN /\ execLog' = execLog \o ExecList(events, "frame", slot, Len(cycle_buffer))
          /\ cycle_buffer' = Recycle(cycle_buffer, slot)
          /\ age' = [e \in DestructionEvents |->
                       IF e \in Range(rest) THEN age[e] + 1 ELSE 0]
          /\ hazard' = [e \in DestructionEvents |-> IF e \in Range(events) THEN 0 ELSE hazard[e]]
          /\ kpending' = [e \in DestructionEvents |->
                            IF e \in Range(events) THEN FALSE ELSE kpending[e]]
    /\ UNCHANGED <<cpc, mainpc, stage_todo, nother, pipeVars, gpuVars>>
    /\ buffer_to_allocation' = ExecuteAll(cycle_buffer[PoppedSlot(cycle_buffer)], buffer_to_allocation)
    /\ image_to_allocation' =
          ExecuteAllImages(cycle_buffer[PoppedSlot(cycle_buffer)], image_to_allocation)
    /\ freed' = freed \cup DestroyedBuffers(cycle_buffer[PoppedSlot(cycle_buffer)])
    /\ UNCHANGED <<composedVars, sbtVars, devVars, auxVars, sceneVars, nbuf, buffers, released>>

\* SignalShutdown received: the worker enters device.wait_idle()
CleanupShutdown ==
    /\ cpc = "recv"
    /\ cleanup_chan # <<>>
    /\ Head(cleanup_chan) = SignalShutdown
    /\ cleanup_chan' = Tail(cleanup_chan)
    /\ cpc' = "wait_idle"
    /\ UNCHANGED <<cycle_buffer, execLog, age, mainpc, stage_todo, nother, hazard, kpending,
                   pipeVars, gpuVars>>
    /\ UNCHANGED extVars

\* wait_idle returned: every list is drained, oldest first, and the loop is left
CleanupFlush ==
    /\ cpc = "wait_idle"
    /\ QueueIdle
    /\ execLog' = execLog \o ExecLists(DrainedLists(cycle_buffer), "shutdown", 1, Len(cycle_buffer))
    /\ cycle_buffer' = <<>>
    /\ cpc' = "finished"
    /\ age' = [e \in DestructionEvents |-> 0]
    /\ hazard' = [e \in DestructionEvents |->
                    IF e \in Range(Flatten(cycle_buffer)) THEN 0 ELSE hazard[e]]
    /\ kpending' = [e \in DestructionEvents |->
                      IF e \in Range(Flatten(cycle_buffer)) THEN FALSE ELSE kpending[e]]
    /\ UNCHANGED <<cleanup_chan, mainpc, stage_todo, nother, pipeVars, gpuVars>>
    /\ buffer_to_allocation' = ExecuteAll(Flatten(DrainedLists(cycle_buffer)), buffer_to_allocation)
    /\ image_to_allocation' =
          ExecuteAllImages(Flatten(DrainedLists(cycle_buffer)), image_to_allocation)
    /\ freed' = freed \cup DestroyedBuffers(Flatten(DrainedLists(cycle_buffer)))
    /\ UNCHANGED <<composedVars, sbtVars, devVars, auxVars, sceneVars, nbuf, buffers, released>>

vulkan_cleanup_worker == CleanupPush \/ CleanupNextFrame \/ CleanupShutdown \/ CleanupFlush

\* an event sent behind the shutdown signal by a holder of a VkCleanup clone
LateEvent == <<"Buffer", 0>>

\* VkCleanup::send after flush_and_die has sent SignalShutdown, while the
\* receiver still exists
LateSend ==
    /\ mainpc = "join"
    /\ cpc # "finished"
    /\ Count(cleanup_chan, LateEvent) = 0
    /\ cleanup_chan' = ChanSend(cleanup_chan, <<LateEvent>>)
    /\ UNCHANGED <<mainpc, stage_todo, nother, hazard, kpending, pipeVars, cpc, cycle_buffer,
                   execLog, age, gpuVars, extVars>>

(* ------------------------------ the GPU -------------------------------- *)
\* the oldest frame submission completes and signals the frame fence
GpuCompletes ==
    /\ gpu_frames > 0
    /\ gpu_frames' = gpu_frames - 1
    /\ fence' = TRUE
    /\ hazard' = [e \in DestructionEvents |-> IF hazard[e] > 0 THEN hazard[e] - 1 ELSE 0]
    /\ UNCHANGED <<mainpc, stage_todo, nother, kpending, pipeVars, cleanVars>>
    /\ UNCHANGED extVars

(* --------------------------- asset pipeline ---------------------------- *)
\* variant: the old value is overwritten without being returned
HashMapInsertForget(map, key, value) ==
    [map |-> {en \in map : en[1] # key} \cup {<<key, value>>}, old |-> {}]

\* variant: an existing entry is kept (entry().or_insert())
HashMapInsertKeep(map, key, value) ==
    [map |-> IF \E en \in map : en[1] = key THEN map ELSE map \cup {<<key, value>>},
     old |-> {}]

\* HashMap::insert: the entry of the key is replaced, the old value returned
HashMapInsert(map, key, value) ==
    [map |-> {en \in map : en[1] # key} \cup {<<key, value>>},
     old |-> {en[2] : en \in {en \in map : en[1] = key}}]

\* the host emits Created for an identity's first change, Modified afterwards
HostAssetEvent(h) ==
    /\ mainpc = "update"
    /\ nedits < MaxEdits
    /\ nedits' = nedits + 1
    /\ asset_events' = Append(asset_events,
            [kind |-> IF h \in assets THEN "Modified" ELSE "Created", handle |-> h])
    /\ assets' = assets \cup {h}
    /\ UNCHANGED <<mainpc, stage_todo, nother, hazard, kpending, send_extracted, wpc, wcur,
                   recv_prepared, lookup, nsnap, installLog, destroyed, ranBusy,
                   cleanVars, gpuVars>>
    /\ UNCHANGED extVars

\* the host removes an asset: the store drops it and emits Removed
HostRemoved(h) ==
    /\ mainpc = "update"
    /\ h \in assets
    /\ nedits < MaxEdits
    /\ nedits' = nedits + 1
    /\ asset_events' = Append(asset_events, [kind |-> "Removed", handle |-> h])
    /\ assets' = assets \ {h}
    /\ UNCHANGED <<mainpc, stage_todo, nother, hazard, kpending, send_extracted, wpc, wcur,
                   recv_prepared, lookup, nsnap, installLog, destroyed, ranBusy,
                   cleanVars, gpuVars>>
    /\ UNCHANGED extVars

\* variant: the Removed arm extracts like the two others
ExtractsAny(kind) == TRUE

\* the arms of extract_vulkan_asset that extract: Created and Modified
Extracts(kind) == kind # "Removed"

\* assets.get(handle).unwrap() in the Created and Modified arms fails when
\* the asset was removed after the notification was emitted
GetPanics(events, store) ==
    \E i \in 1..Len(events) : events[i].kind # "Removed" /\ events[i].handle \notin store

\* the loop of extract_vulkan_asset: ok[i] says whether extract_asset returned
\* Some for the i-th notification; each snapshot sent is numbered
RECURSIVE ExtractLoop(_, _, _, _)
ExtractLoop(events, ok, chan, n) ==
    IF events = <<>> THEN [chan |-> chan, n |-> n]
    ELSE IF Head(ok) /\ Extracts(Head(events).kind)
         THEN ExtractLoop(Tail(events), Tail(ok), ChanSend(chan, << <<Head(events).handle, n + 1>> >>), n + 1)
         ELSE ExtractLoop(Tail(events), Tail(ok), chan, n)

\* extract_vulkan_asset, given for each notification whether extract_asset
\* returns Some
ExtractStage(ok) ==
    /\ mainpc = "extract"
    /\ "extract_vulkan_asset" \in stage_todo
    /\   LET r == ExtractLoop(asset_events, ok, send_extracted, nsnap)
         IN IF (wpc = "dead" /\ r.n # nsnap) \/ GetPanics(asset_events, assets)
            THEN \* the receiver was dropped with the worker: send(..).unwrap() panics
                 /\ mainpc' = "panicked"
                 /\ UNCHANGED <<stage_todo, asset_events, send_extracted, nsnap, ranBusy>>
            ELSE /\ send_extracted' = r.chan
                 /\ nsnap' = r.n
                 /\ asset_events' = <<>>
                 /\ stage_todo' = stage_todo \ {"extract_vulkan_asset"}
                 /\ ranBusy' = IF wpc = "preparing"
                               THEN ranBusy \cup {"extract_vulkan_asset"} ELSE ranBusy
                 /\ UNCHANGED mainpc
    /\ UNCHANGED <<nother, hazard, kpending, assets, wpc, wcur, recv_prepared, lookup, nedits,
                   installLog, destroyed, cleanVars, gpuVars>>
    /\ UNCHANGED extVars

\* extract_vulkan_asset of an asset type whose extract_asset may return either
extract_vulkan_asset == \E ok \in [1..Len(asset_events) -> BOOLEAN] : ExtractStage(ok)

\* variant: a blocking recv, which returns only when an item arrives
RecvReady(chan) == chan # <<>>

\* try_recv returns at once, with an error when the channel is empty
TryRecvReady(chan) == TRUE

\* the loop of publish_vulkan_asset over what try_recv returns
RECURSIVE PublishLoop(_, _, _, _)
PublishLoop(chan, map, sent, dead) ==
    IF chan = <<>> THEN [map |-> map, sent |-> sent, dead |-> dead]
    ELSE LET r == HashMapInsert(map, Head(chan)[1], Head(chan)[2])
             olds == CHOOSE s \in Perms(r.old) : TRUE
         IN PublishLoop(Tail(chan), r.map,
                        sent \o Flatten([i \in 1..Len(olds) |-> destroy_asset(olds[i])]),
                        dead \o olds)

publish_vulkan_asset ==
    /\ mainpc = "extract"
    /\ "publish_vulkan_asset" \in stage_todo
    /\ TryRecvReady(recv_prepared)
    /\ LET r == PublishLoop(recv_prepared, lookup, <<>>, <<>>)
       IN /\ lookup' = r.map
          /\ MainSends(r.sent)
          /\ destroyed' = [p \in 1..MaxEdits |-> destroyed[p] + Count(r.dead, p)]
          /\ installLog' = installLog \o [i \in 1..Len(recv_prepared) |->
                                <<recv_prepared[i][1], recv_prepared[i][2], i>>]
    /\ recv_prepared' = <<>>
    /\ stage_todo' = stage_todo \ {"publish_vulkan_asset"}
    /\ ranBusy' = IF wpc = "preparing" THEN ranBusy \cup {"publish_vulkan_asset"} ELSE ranBusy
    /\ UNCHANGED <<mainpc, nother, assets, asset_events, send_extracted, wpc, wcur, nsnap, nedits,
                   cpc, cycle_buffer, execLog, age, gpuVars>>
    /\ UNCHANGED extVars

\* variant: the worker takes the newest snapshot first
WorkerIndexNewest(chan) == Len(chan)

\* prepare_asset (the worker thread): recv_extracted.recv() takes the oldest snapshot
WorkerIndex(chan) == 1

PrepareRecv ==
    /\ wpc = "recv"
    /\ send_extracted # <<>>
    /\ LET i == WorkerIndex(send_extracted)
       IN /\ wcur' = send_extracted[i]
          /\ send_extracted' = [j \in 1..(Len(send_extracted) - 1) |->
                                  IF j < i THEN send_extracted[j] ELSE send_extracted[j + 1]]
    /\ wpc' = "preparing"
    /\ UNCHANGED <<mainpc, stage_todo, nother, hazard, kpending, assets, asset_events, recv_prepared,
                   lookup, nsnap, nedits, installLog, destroyed, ranBusy, cleanVars, gpuVars>>
    /\ UNCHANGED extVars

\* T::prepare_asset returned: the prepared asset made from snapshot n is sent
PrepareDone ==
    /\ wpc = "preparing"
    /\ recv_prepared' = ChanSend(recv_prepared, <<wcur>>)
    /\ wpc' = "recv"
    /\ wcur' = <<0, 0>>
    /\ UNCHANGED <<mainpc, stage_todo, nother, hazard, kpending, assets, asset_events, send_extracted,
                   lookup, nsnap, nedits, installLog, destroyed, ranBusy, cleanVars, gpuVars>>
    /\ UNCHANGED extVars

\* T::prepare_asset panicked: the thread unwinds and drops its receiver
PreparePanics ==
    /\ wpc = "preparing"
    /\ wpc' = "dead"
    /\ wcur' = <<0, 0>>
    /\ send_extracted' = <<>>
    /\ UNCHANGED <<mainpc, stage_todo, nother, hazard, kpending, assets, asset_events, recv_prepared,
                   lookup, nsnap, nedits, installLog, destroyed, ranBusy, cleanVars, gpuVars>>
    /\ UNCHANGED extVars

prepare_asset == PrepareRecv \/ PrepareDone \/ PreparePanics

(* ----------------------------- main thread ----------------------------- *)
PendingSignals == Count(cleanup_chan, SignalNextFrame)

\* variant: the signal is sent without waiting for the fence
FenceWaitSkipped == TRUE

\* wait_for_fences on the frame fence returns once the fence is signalled
FenceWait == fence

\* wait_for_frame_finish: wait for the frame fence, reset it, signal the worker
wait_for_frame_finish ==
    /\ mainpc = "wait"
    /\ FenceWait
    /\ PendingSignals < MaxPendingSignals
    /\ fence' = FALSE
    /\ MainSends(<<SignalNextFrame>>)
    /\ mainpc' = "extract"
    /\ stage_todo' = {"extract_vulkan_asset", "publish_vulkan_asset"}
    /\ UNCHANGED <<nother, gpu_frames, pipeVars, cpc, cycle_buffer, execLog, age>>
    /\ UNCHANGED extVars

\* a system hands a resource to the queue (update_scene, update_sbt,
\* Swapchain::on_resize): cleanup.send(VkCleanupEvent::Buffer(..))
SendDestruction ==
    /\ mainpc \in {"update", "extract"}
    /\ nother < MaxOther
    /\ nother' = nother + 1
    /\ MainSends(<< <<"Buffer", nother + 1>> >>)
    /\ UNCHANGED <<mainpc, stage_todo, pipeVars, cpc, cycle_buffer, execLog, age, gpuVars>>
    /\ UNCHANGED extVars

\* the systems of RenderSet::Extract have run; RenderSet::Render follows
EndExtractStage ==
    /\ mainpc = "extract"
    /\ stage_todo = {}
    /\ mainpc' = "render"
    /\ UNCHANGED <<stage_todo, nother, hazard, kpending, pipeVars, cleanVars, gpuVars>>
    /\ UNCHANGED extVars

\* before the first update_scene, before the skybox is published and
\* before the first frame
NoTrace == [instances |-> {}, skybox |-> FALSE, frame |-> <<>>]

\* AccelerationStructure::is_ready: the handle is not the null handle
is_ready(tlas) == tlas.handle # 0

\* Buffer.address: 0 for the null buffer, the device address of a created one
BufferAddress(buffer) == buffer.handle

\* variant: the SBT's address is not looked at
TraceRaysAnySbt(pipeline, skybox, ready, address) == pipeline # 0 /\ skybox /\ ready

\* render's nested conditions around cmd_trace_rays
TraceRays(pipeline, skybox, ready, address) ==
    pipeline # 0 /\ skybox /\ ready /\ address # 0

\* the frame render records: what it found in the lookup tables, the scene
\* and the SBT, and whether it recorded cmd_trace_rays with them
RecordFrame ==
    [pipeline |-> rt_pipeline, skybox |-> trace.skybox, tlas |-> scene.tlas.handle,
     sbt_address |-> BufferAddress(sbt.data),
     instances |-> trace.instances, triangle_offsets |-> sbt.triangle_offsets,
     traced |-> TraceRays(rt_pipeline, trace.skybox, is_ready(scene.tlas),
                          BufferAddress(sbt.data))]

\* render: the frame command buffer is recorded, submitted with the frame
\* fence and presented
render ==
    /\ mainpc = "render"
    /\ trace' = [trace EXCEPT !.frame = <<RecordFrame>>]
    /\ gpu_frames' = gpu_frames + 1
    /\ hazard' = [e \in DestructionEvents |-> IF kpending[e] THEN gpu_frames + 1 ELSE hazard[e]]
    /\ kpending' = [e \in DestructionEvents |-> FALSE]
    /\ mainpc' = "update"
    /\ UNCHANGED <<stage_todo, nother, fence, pipeVars, cleanVars>>
    /\ UNCHANGED <<composedVars, sbtVars, sceneVars, bufVars, devVars, imgVars, scratch_use,
                   lockVars>>

\* shutdown without an AppExit event: the next frame starts
NextFrame ==
    /\ mainpc = "update"
    /\ mainpc' = "wait"
    /\ UNCHANGED <<stage_todo, nother, hazard, kpending, pipeVars, cleanVars, gpuVars>>
    /\ UNCHANGED extVars

\* destroy_vulkan_asset: lookup.drain() in the map's iteration order
DrainLookup(order) == Flatten([i \in 1..Len(order) |-> destroy_asset(order[i][2])])

\* shutdown with an AppExit event: the cleanup playbook runs, then
\* flush_and_die sends SignalShutdown and joins the worker
shutdown ==
    /\ mainpc = "update"
    /\ \E order \in Perms(lookup) :
         /\ MainSends(DrainLookup(order) \o cleanup_render_resources(FramesInFlight)
                      \o <<SignalShutdown>>)
         /\ destroyed' = [p \in 1..MaxEdits |->
                            destroyed[p] + Count([i \in 1..Len(order) |-> order[i][2]], p)]
    /\ lookup' = {}
    /\ mainpc' = "join"
    /\ UNCHANGED <<stage_todo, nother, assets, asset_events, send_extracted, wpc, wcur,
                   recv_prepared, nsnap, nedits, installLog, ranBusy,
                   cpc, cycle_buffer, execLog, age, gpuVars>>
    /\ UNCHANGED extVars

\* thread.join() returns when the worker has left its loop
Joined ==
    /\ mainpc = "join"
    /\ cpc = "finished"
    /\ mainpc' = "exited"
    /\ UNCHANGED <<stage_todo, nother, hazard, kpending, pipeVars, cleanVars, gpuVars>>
    /\ UNCHANGED extVars

\* the frame loop with its exit: RenderSchedule, then shutdown in CoreSet::Last
MainFrame ==
    \/ wait_for_frame_finish \/ extract_vulkan_asset \/ publish_vulkan_asset
    \/ EndExtractStage \/ render \/ NextFrame \/ shutdown \/ Joined

MainThread == MainFrame \/ SendDestruction

(* ------------------------------ buffers -------------------------------- *)
\* Buffer::default(): no elements and the null handle
DefaultBuffer == [nr_elements |-> 0, handle |-> 0]

\* variant: the zero-size early return is missing
create_buffer_unchecked(nr_elements, map, n) ==
    [buffer |-> [nr_elements |-> nr_elements, handle |-> n + 1],
     map |-> HashMapInsert(map, n + 1, n + 1).map, n |-> n + 1]

\* create_buffer: a buffer of zero elements is the null handle without an
\* allocation; otherwise a native buffer is created (handle n + 1), memory is
\* allocated and bound, and the allocation is recorded under the handle
create_buffer(nr_elements, map, n) ==
    IF nr_elements = 0
    THEN [buffer |-> [nr_elements |-> nr_elements, handle |-> 0], map |-> map, n |-> n]
    ELSE [buffer |-> [nr_elements |-> nr_elements, handle |-> n + 1],
          map |-> HashMapInsert(map, n + 1, n + 1).map, n |-> n + 1]

(* ----------------------- shader binding table -------------------------- *)
\* size_of::<RTGroupHandle>(): [u8; 32]
HandleSize == 32
\* size_of::<SBTRegionHitTriangle>(): the handle and three u64 addresses
HitTriangleSize == 56
\* size_of::<SBTRegionHitSphere>(): the handle
HitSphereSize == 32

RECURSIVE BitAnd(_, _)
BitAnd(x, y) ==
    IF x = 0 \/ y = 0 THEN 0
    ELSE (x % 2) * (y % 2) + 2 * BitAnd(x \div 2, y \div 2)

\* aligned_size: (value + alignment - 1) & !(alignment - 1) on u32, where
\* x & !m is x with the bits of m cleared, x - (x & m); the sums of the sizes
\* and alignments used here stay far below 2^32
aligned_size(value, alignment) ==
    LET x == value + alignment - 1
    IN x - BitAnd(x, alignment - 1)

\* the alignments a device may report: powers of two
Alignments == {2^k : k \in 0..MaxAlignExp}

RtProps == [shader_group_handle_alignment : Alignments, shader_group_base_alignment : Alignments]

\* SBT::default()
DefaultSBT ==
    [raygen_region |-> [stride |-> 0, size |-> 0],
     miss_region |-> [stride |-> 0, size |-> 0],
     hit_region |-> [stride |-> 0, size |-> 0],
     data |-> DefaultBuffer,
     triangle_offsets |-> {}]

\* variant: the miss region is one record long, not rounded up
MissRegionSizeUnaligned(stride, base) == stride

\* me.miss_region.size
MissRegionSize(stride, base) == aligned_size(stride, base)

\* variant: the index is taken to be the length after the push
OffsetAfterPushLen(len) == len

\* hit_region_data.len() as u32 - 1, the index of the record just pushed
OffsetAfterPush(len) == len - 1

\* variant: the buffer is recreated on every recomputation
SbtNeedsBufferAlways(data, sbt_size) == TRUE

\* me.data.nr_elements != sbt_size
SbtNeedsBuffer(data, sbt_size) == data.nr_elements # sbt_size

\* the hit records: the sphere record, then one triangle record per prepared
\* mesh in the iteration order of the map
HitRegionData(order) == << <<"Sphere", 0>> >> \o [i \in 1..Len(order) |-> <<"Triangle", order[i]>>]

\* the three regions computed by update_sbt for a number of hit records
SbtRegions(count, props) ==
    LET handle_size_aligned == aligned_size(HandleSize, props.shader_group_handle_alignment)
        base == props.shader_group_base_alignment
        raygen_stride == aligned_size(handle_size_aligned, base)
        hit_entry_size ==
            aligned_size(IF HitTriangleSize > HitSphereSize THEN HitTriangleSize ELSE HitSphereSize,
                         base)
    IN [raygen_region |-> [stride |-> raygen_stride, size |-> raygen_stride],
        miss_region |-> [stride |-> handle_size_aligned,
                         size |-> MissRegionSize(handle_size_aligned, base)],
        hit_region |-> [stride |-> hit_entry_size,
                        size |-> aligned_size(count * hit_entry_size, base)]]

\* completed recomputations so far
SbtRuns == IF sbtLog = <<>> THEN 0 ELSE sbtLog[Len(sbtLog)].run

\* the history keeps the last two recomputations
LastTwo(log) == IF Len(log) > 2 THEN SubSeq(log, Len(log) - 1, Len(log)) ELSE log

\* update_sbt, run when the prepared meshes or pipelines changed
update_sbt ==
    /\ sbt_changed
    /\ SbtRuns < MaxSbtRuns
    /\ sbt_changed' = FALSE
    /\ IF rt_pipeline = 0
       THEN \* no pipeline: bail
            UNCHANGED <<sbt, sbtLog, cleanup_chan, hazard, kpending, bufVars>>
       ELSE \E order \in Perms(meshes) :
              LET hit_region_data == HitRegionData(order)
                  offsets == {<<order[i], OffsetAfterPush(i + 1)>> : i \in 1..Len(order)}
                  regions == SbtRegions(Len(hit_region_data), rtprops)
                  sbt_size == regions.raygen_region.size + regions.miss_region.size
                              + regions.hit_region.size
                  resize == SbtNeedsBuffer(sbt.data, sbt_size)
                  made == create_buffer(sbt_size, buffer_to_allocation, nbuf)
                  data == IF resize THEN made.buffer ELSE sbt.data
              IN /\ IF resize
                    THEN /\ MainSends(<< <<"Buffer", sbt.data.handle>> >>)
                         /\ buffer_to_allocation' = made.map
                         /\ nbuf' = made.n
                         /\ buffers' = Append(buffers, made.buffer)
                    ELSE UNCHANGED <<cleanup_chan, hazard, kpending, buffer_to_allocation, nbuf,
                                     buffers>>
                 /\ sbt' = [raygen_region |-> regions.raygen_region,
                            miss_region |-> regions.miss_region,
                            hit_region |-> regions.hit_region,
                            data |-> data,
                            triangle_offsets |-> offsets]
                 /\ sbtLog' = LastTwo(Append(sbtLog,
                        [run |-> SbtRuns + 1,
                         count |-> Len(hit_region_data), pipeline |-> rt_pipeline,
                         regions |-> regions, data |-> data, resized |-> resize,
                         sent |-> IF resize THEN << <<"Buffer", sbt.data.handle>> >> ELSE <<>>,
                         written |-> hit_region_data, meshes |-> meshes]))
                 /\ UNCHANGED <<freed, released>>
    /\ UNCHANGED <<mainpc, stage_todo, nother, pipeVars, cpc, cycle_buffer, execLog, age, gpuVars,
                   composedVars, devVars, imgVars, auxVars, rtprops, rt_pipeline, meshes, sceneVars>>

\* publish_vulkan_asset::<GltfMesh> installs a prepared mesh
PublishMesh(h) ==
    /\ meshes' = meshes \cup {h}
    /\ sbt_changed' = TRUE
    /\ SbtRuns < MaxSbtRuns
    /\ UNCHANGED <<mainpc, stage_todo, nother, hazard, kpending, pipeVars, cleanVars, gpuVars,
                   composedVars, devVars, imgVars, auxVars, rtprops, rt_pipeline, sbt, sbtLog, sceneVars, bufVars>>

\* publish_vulkan_asset::<RaytracingPipeline> installs a prepared pipeline
PublishPipeline ==
    /\ rt_pipeline < MaxPipelines
    /\ rt_pipeline' = rt_pipeline + 1
    /\ sbt_changed' = TRUE
    /\ SbtRuns < MaxSbtRuns
    /\ UNCHANGED <<mainpc, stage_todo, nother, hazard, kpending, pipeVars, cleanVars, gpuVars,
                   composedVars, devVars, imgVars, auxVars, rtprops, meshes, sbt, sbtLog, sceneVars, bufVars>>

(* ------------------------------- scene --------------------------------- *)
\* Scene::default()
DefaultScene ==
    [tlas |-> [handle |-> 0, buffer |-> DefaultBuffer],
     scratch_buffer |-> DefaultBuffer,
     instance_buffer |-> DefaultBuffer,
     contents |-> <<>>]

\* min_acceleration_structure_scratch_offset_alignment of the device
ScratchAlignment == 128

\* get_acceleration_structure_build_sizes for a number of instances: the
\* driver's sizes grow in steps, so different counts may need the same size
BuildSizes(primitive_count) ==
    [acceleration_structure_size |-> 256 * (1 + primitive_count \div 4),
     build_scratch_size |-> 128 * (1 + primitive_count \div 2)]

\* variant: the instance buffer is recreated on every call
NeedsResizeAlways(buffer, nr_elements) == TRUE

\* instances.len() != scene.instance_buffer.nr_elements, and the same test
\* on the TLAS backing buffer and on the scratch buffer
NeedsResize(buffer, nr_elements) == buffer.nr_elements # nr_elements

\* variant: the old TLAS object is kept when the sizes did not change
TlasRebuildIfResized(resized) == resized

\* "we always rebuild the tlas"
TlasRebuild(resized) == TRUE

\* variant: an empty instance list is built like any other
IsEmptyNever(instances) == FALSE

\* instances.is_empty()
IsEmpty(instances) == instances = 0

\* variant: the scratch buffer is replaced after the build was submitted
SceneOpsBuildFirst(instOps, tlasOps, scratchOps, buildOps) ==
    instOps \o tlasOps \o buildOps \o scratchOps

\* the order of update_scene's steps: instance buffer, TLAS object and its
\* backing buffer, scratch buffer, then the build
SceneOps(instOps, tlasOps, scratchOps, buildOps) ==
    instOps \o tlasOps \o scratchOps \o buildOps

\* the events of a list of steps that are sent to the cleanup worker
RECURSIVE SentBy(_)
SentBy(ops) ==
    IF ops = <<>> THEN <<>>
    ELSE (IF Head(ops)[1] = "send" THEN <<Head(ops)[2]>> ELSE <<>>) \o SentBy(Tail(ops))

\* the buffers a list of steps creates
RECURSIVE CreatedBy(_)
CreatedBy(ops) ==
    IF ops = <<>> THEN <<>>
    ELSE (IF Head(ops)[1] = "create" THEN <<Head(ops)[2]>> ELSE <<>>) \o CreatedBy(Tail(ops))

\* update_scene from its instance list on: instances resolved renderables
\* in the given pose
update_scene_from(instances, pose) ==
    /\ mainpc = "update"
    /\ Len(sceneLog) < MaxSceneRuns
    /\ IF IsEmpty(instances)
       THEN /\ sceneLog' = Append(sceneLog, [instances |-> instances, pose |-> pose,
                                             before |-> scene, after |-> scene, ops |-> <<>>])
            /\ UNCHANGED <<scene, cleanup_chan, hazard, kpending, bufVars>>
       ELSE LET build_sizes == BuildSizes(instances)
                scratch_size == build_sizes.build_scratch_size + ScratchAlignment
                newInst == NeedsResize(scene.instance_buffer, instances)
                mInst == create_buffer(instances, buffer_to_allocation, nbuf)
                a1 == IF newInst THEN mInst
                      ELSE [buffer |-> scene.instance_buffer, map |-> buffer_to_allocation,
                            n |-> nbuf]
                newBack == NeedsResize(scene.tlas.buffer, build_sizes.acceleration_structure_size)
                mBack == create_buffer(build_sizes.acceleration_structure_size, a1.map, a1.n)
                a2 == IF newBack THEN mBack
                      ELSE [buffer |-> scene.tlas.buffer, map |-> a1.map, n |-> a1.n]
                rebuild == TlasRebuild(newBack)
                handle == IF rebuild THEN a2.n + 1 ELSE scene.tlas.handle
                n3 == IF rebuild THEN a2.n + 1 ELSE a2.n
                newScratch == NeedsResize(scene.scratch_buffer, scratch_size)
                mScratch == create_buffer(scratch_size, a2.map, n3)
                a3 == IF newScratch THEN mScratch
                      ELSE [buffer |-> scene.scratch_buffer, map |-> a2.map, n |-> n3]
                instOps ==
                    (IF newInst
                     THEN << <<"send", <<"Buffer", scene.instance_buffer.handle>> >>,
                             <<"create", a1.buffer>> >>
                     ELSE <<>>) \o << <<"write", a1.buffer.handle>> >>
                tlasOps ==
                    (IF rebuild
                     THEN << <<"send", <<"AccelerationStructure", scene.tlas.handle>> >> >>
                     ELSE <<>>)
                    \o (IF newBack
                        THEN << <<"send", <<"Buffer", scene.tlas.buffer.handle>> >>,
                                <<"create", a2.buffer>> >>
                        ELSE <<>>)
                    \o (IF rebuild THEN << <<"create_tlas", handle>> >> ELSE <<>>)
                scratchOps ==
                    IF newScratch
                    THEN << <<"send", <<"Buffer", scene.scratch_buffer.handle>> >>,
                            <<"create", a3.buffer>> >>
                    ELSE <<>>
                buildOps ==
                    << <<"build", [dst |-> handle, backing |-> a2.buffer.handle,
                                   scratch |-> a3.buffer.handle,
                                   instances |-> a1.buffer.handle]>> >>
                ops == SceneOps(instOps, tlasOps, scratchOps, buildOps)
                after == [tlas |-> [handle |-> handle, buffer |-> a2.buffer],
                          scratch_buffer |-> a3.buffer,
                          instance_buffer |-> a1.buffer,
                          contents |-> <<instances, pose>>]
            IN /\ scene' = after
               /\ MainSends(SentBy(ops))
               /\ buffer_to_allocation' = a3.map
               /\ nbuf' = a3.n
               /\ buffers' = buffers \o CreatedBy(ops)
               /\ sceneLog' = Append(sceneLog, [instances |-> instances, pose |-> pose,
                                                before |-> scene, after |-> after, ops |-> ops])
               /\ UNCHANGED <<freed, released>>
    /\ UNCHANGED <<mainpc, stage_todo, nother, pipeVars, cpc, cycle_buffer, execLog, age, gpuVars,
                   composedVars, sbtVars, devVars, imgVars, scratch_use, lockVars>>

\* update_scene with instances resolved renderables in the given pose
update_scene(instances, pose) ==
    /\ update_scene_from(instances, pose)
    /\ UNCHANGED trace

\* resolved_blasses: every sphere with hit offset 0, and every mesh entity
\* whose BLAS is published and whose mesh has a triangle offset in the SBT
ResolvedBlasses(spheres, entities, blasses, triangle_offsets) ==
    {[mesh |-> 0, entity |-> e, hit_offset |-> 0] : e \in 1..spheres}
    \cup {[mesh |-> en[1], entity |-> en[1], hit_offset |-> en[2]] :
            en \in {x \in triangle_offsets : x[1] \in entities \cap blasses}}

\* update_scene over the spheres and mesh entities of the world: the
\* instance records are resolved against the published meshes and the SBT,
\* then the TLAS is rebuilt from them
update_scene_resolved(spheres, entities, pose) ==
    LET resolved == ResolvedBlasses(spheres, entities, meshes, sbt.triangle_offsets)
    IN /\ update_scene_from(Cardinality(resolved), pose)
       /\ trace' = [trace EXCEPT !.instances = IF resolved = {} THEN @ ELSE resolved]

\* publish_vulkan_asset::<Image> installs the skybox texture
PublishSkybox ==
    /\ ~trace.skybox
    /\ trace' = [trace EXCEPT !.skybox = TRUE]
    /\ UNCHANGED <<coreVars, scratch_use, lockVars>>

\* variant: the instance buffer's send is repeated in place of the scratch
\* buffer's
destroy_scene_instance_twice(s) ==
    << <<"Buffer", s.tlas.buffer.handle>>,
       <<"AccelerationStructure", s.tlas.handle>>,
       <<"Buffer", s.instance_buffer.handle>>,
       <<"Buffer", s.instance_buffer.handle>> >>

\* destroy_scene: its four sends in source order
destroy_scene(s) ==
    << <<"Buffer", s.tlas.buffer.handle>>,
       <<"AccelerationStructure", s.tlas.handle>>,
       <<"Buffer", s.instance_buffer.handle>>,
       <<"Buffer", s.scratch_buffer.handle>> >>

\* destroy_sbt
destroy_sbt(me) == << <<"Buffer", me.data.handle>> >>

\* shutdown of a program with a scene and an SBT: the playbook runs
\* destroy_scene and destroy_sbt in the order its schedule chooses, then
\* flush_and_die sends SignalShutdown and joins the worker
shutdown_playbook ==
    /\ mainpc = "update"
    /\ \E scene_first \in BOOLEAN :
          MainSends((IF scene_first THEN destroy_scene(scene) \o destroy_sbt(sbt)
                     ELSE destroy_sbt(sbt) \o destroy_scene(scene))
                    \o cleanup_render_resources(FramesInFlight) \o <<SignalShutdown>>)
    /\ mainpc' = "join"
    /\ UNCHANGED <<stage_todo, nother, pipeVars, cpc, cycle_buffer, execLog, age, gpuVars,
                   composedVars, sbtVars, sceneVars, bufVars, devVars, imgVars, auxVars>>

(* --------------------------- composed assets --------------------------- *)
\* RasterizationPipeline::get_deps: the vertex and the fragment shader
get_deps(h) == {"vs_shader", "fs_shader"}

ShaderHandles == UNION {get_deps(h) : h \in Handles}

\* RasterizationPipeline::extract_asset: Some once both shaders are loaded
extract_asset(h) == get_deps(h) \subseteq shaders

\* extract_vulkan_asset::<RasterizationPipeline>
extract_pipeline_asset ==
    ExtractStage([i \in 1..Len(asset_events) |-> extract_asset(asset_events[i].handle)])

\* the asset server loads or reloads a shader: it is stored in Assets<Shader>
\* and a Created or Modified notification is emitted
LoadShader(sh) ==
    /\ mainpc = "update"
    /\ nloads < MaxLoads
    /\ nloads' = nloads + 1
    /\ shaders' = shaders \cup {sh}
    /\ dep_events' = dep_events \cup {sh}
    /\ UNCHANGED <<mainpc, stage_todo, nother, hazard, kpending, pipeVars, cleanVars, gpuVars,
                   promoted, sbtVars, devVars, imgVars, auxVars, sceneVars, bufVars>>

\* promote_composed_asset_events: a Modified ComposedAssetEvent is written for
\* every composed asset with a dependency among the notifications
promote_composed_asset_events ==
    /\ mainpc = "update"
    /\ dep_events # {}
    /\ promoted' = promoted \cup {h \in assets : get_deps(h) \cap dep_events # {}}
    /\ dep_events' = {}
    /\ UNCHANGED <<mainpc, stage_todo, nother, hazard, kpending, pipeVars, cleanVars, gpuVars,
                   shaders, nloads, sbtVars, devVars, imgVars, auxVars, sceneVars, bufVars>>

(* --------------------------- buffer owners ----------------------------- *)
\* the element counts components ask for: none or some
ElementCounts == {0, 1}

\* a component creates a buffer: create_host_buffer or create_device_buffer
CreateBuffer(nr_elements) ==
    /\ Len(buffers) < MaxBuffers
    /\ LET made == create_buffer(nr_elements, buffer_to_allocation, nbuf)
       IN /\ buffer_to_allocation' = made.map
          /\ nbuf' = made.n
          /\ buffers' = Append(buffers, made.buffer)
    /\ UNCHANGED <<mainpc, stage_todo, nother, hazard, kpending, pipeVars, cleanVars, gpuVars,
                   composedVars, sbtVars, devVars, imgVars, auxVars, sceneVars, freed, released>>

\* the owner hands a buffer to the queue and gives it up:
\* cleanup.send(VkCleanupEvent::Buffer(handle))
HandOffBuffer(i) ==
    /\ mainpc \in {"update", "extract"}
    /\ i \in 1..Len(buffers)
    /\ i \notin released
    /\ released' = released \cup {i}
    /\ MainSends(<< <<"Buffer", buffers[i].handle>> >>)
    /\ UNCHANGED <<mainpc, stage_todo, nother, pipeVars, cpc, cycle_buffer, execLog, age, gpuVars,
                   composedVars, sbtVars, devVars, imgVars, auxVars, sceneVars, buffer_to_allocation, nbuf, buffers, freed>>

\* destroy_buffer: the allocation, if any, is freed and the native buffer destroyed
destroy_buffer(i) ==
    /\ i \in 1..Len(buffers)
    /\ i \notin released
    /\ released' = released \cup {i}
    /\ buffer_to_allocation' = HashMapRemove(buffer_to_allocation, buffers[i].handle)
    /\ freed' = freed \cup ({buffers[i].handle} \ {0})
    /\ UNCHANGED <<mainpc, stage_todo, nother, hazard, kpending, pipeVars, cleanVars, gpuVars,
                   composedVars, sbtVars, devVars, imgVars, auxVars, sceneVars, nbuf, buffers>>

\* the outcome of no consumer call
NoUse == [op |-> "none", at |-> 0, result |-> "none"]

\* map_buffer: buffer_to_allocation.get(&buffer.handle).unwrap() gives the
\* mapped view, and panics when no allocation is recorded for the handle
map_buffer(buffer, map) ==
    IF \E en \in map : en[1] = buffer.handle THEN "view" ELSE "panic"

\* upload_buffer records cmd_copy_buffer(host.handle, device.handle, size)
\* without looking at the handles; with a null handle the call is outside
\* what the native API defines, and the driver may take it or fault
upload_buffer(host_buffer, device_buffer) ==
    IF host_buffer.handle # 0 /\ device_buffer.handle # 0 THEN {"recorded"}
    ELSE {"recorded", "fault"}

\* a component maps one of its buffers; a panic ends its thread
MapBuffer(i) ==
    /\ mainpc = "update"
    /\ i \in 1..Len(buffers)
    /\ i \notin released
    /\ LET result == map_buffer(buffers[i], buffer_to_allocation)
       IN /\ use' = [op |-> "map_buffer", at |-> i, result |-> result]
          /\ mainpc' = IF result = "panic" THEN "panicked" ELSE mainpc
    /\ UNCHANGED <<stage_todo, nother, hazard, kpending, pipeVars, cleanVars, gpuVars,
                   composedVars, sbtVars, sceneVars, bufVars, imgVars, auxVars,
                   g_descriptors, prep>>

\* a component records the copy of a host buffer into a device buffer
UploadBuffer(i, j) ==
    /\ mainpc = "update"
    /\ {i, j} \subseteq 1..Len(buffers)
    /\ i # j
    /\ {i, j} \cap released = {}
    /\ \E result \in upload_buffer(buffers[i], buffers[j]) :
          /\ use' = [op |-> "upload_buffer", at |-> i, result |-> result]
          /\ mainpc' = IF result = "fault" THEN "panicked" ELSE mainpc
    /\ UNCHANGED <<stage_todo, nother, hazard, kpending, pipeVars, cleanVars, gpuVars,
                   composedVars, sbtVars, sceneVars, bufVars, imgVars, auxVars,
                   g_descriptors, prep>>

(* ------------------------- bindless descriptors ------------------------ *)
\* GDescriptorMap as created with the device: no view has a slot
DefaultGDescriptorMap == [g_descriptor_map |-> {}, g_descriptor_idx_gen |-> 0]

\* the slot recorded for a view
SlotOf(view, g) == (CHOOSE en \in g.g_descriptor_map : en[1] = view)[2]

\* variant: the generator is not advanced after a slot is handed out
NextSlotSame(idx_gen) == idx_gen

\* g_descriptor_idx_gen += 1
NextSlot(idx_gen) == idx_gen + 1

\* get_texture_descriptor_index, all of it under the g_descriptors mutex: the
\* memoized slot of the view, or the next slot, recorded and written
get_texture_descriptor_index(view, g) ==
    IF \E en \in g.g_descriptor_map : en[1] = view
    THEN [index |-> SlotOf(view, g), g |-> g]
    ELSE [index |-> g.g_descriptor_idx_gen,
          g |-> [g_descriptor_map |->
                     HashMapInsert(g.g_descriptor_map, view, g.g_descriptor_idx_gen).map,
                 g_descriptor_idx_gen |-> NextSlot(g.g_descriptor_idx_gen)]]

(* --------------------------- mesh preparation -------------------------- *)
\* a primitive whose readers agree with its accessors: one triangle
GoodShape == [vertex_count |-> 3, pos_len |-> 3, index_count |-> 3, idx_len |-> 3]

\* primitives with a short position reader, a short index reader, an index
\* count that is no multiple of 3, and no data at all
BadShapes ==
    {[vertex_count |-> 3, pos_len |-> 2, index_count |-> 3, idx_len |-> 3],
     [vertex_count |-> 3, pos_len |-> 3, index_count |-> 3, idx_len |-> 2],
     [vertex_count |-> 3, pos_len |-> 3, index_count |-> 4, idx_len |-> 4],
     [vertex_count |-> 0, pos_len |-> 0, index_count |-> 0, idx_len |-> 0]}

\* texture: the image a primitive's material refers to (0: none)
Primitives ==
    {[shape |-> GoodShape, texture |-> t] : t \in 0..NumImages}
        \cup {[shape |-> sh, texture |-> 0] : sh \in BadShapes}

Meshes == UNION {[1..k -> Primitives] : k \in 1..MaxPrims}

\* extract_mesh_sizes: the sums of the declared counts
RECURSIVE SumCounts(_, _, _)
SumCounts(mesh, field, k) ==
    IF k = 0 THEN 0 ELSE mesh[k].shape[field] + SumCounts(mesh, field, k - 1)

extract_mesh_sizes(mesh) ==
    [vertex_count |-> SumCounts(mesh, "vertex_count", Len(mesh)),
     index_count |-> SumCounts(mesh, "index_count", Len(mesh))]

\* variant: the index count is not checked against 3
PrimitiveOkAnyIndexCount(p) ==
    /\ p.shape.pos_len = p.shape.vertex_count
    /\ p.shape.idx_len = p.shape.index_count

\* the three assertions extract_mesh_data makes on a primitive
PrimitiveOk(p) ==
    /\ p.shape.pos_len = p.shape.vertex_count
    /\ p.shape.idx_len = p.shape.index_count
    /\ p.shape.index_count % 3 = 0

\* extract_mesh_data: the geometry descriptors, or a failed assertion
extract_mesh_data(mesh) ==
    IF \A i \in 1..Len(mesh) : PrimitiveOk(mesh[i])
    THEN [panic |-> FALSE,
          geometries |-> [i \in 1..Len(mesh) |-> [index_count |-> mesh[i].shape.index_count]]]
    ELSE [panic |-> TRUE, geometries |-> <<>>]

\* primitive_counts: index_count / 3 of every geometry, summed by the driver
RECURSIVE PrimitiveCount(_, _)
PrimitiveCount(geometries, k) ==
    IF k = 0 THEN 0 ELSE geometries[k].index_count \div 3 + PrimitiveCount(geometries, k - 1)

\* the compacted size the query reports: at most the built size
CompactedSizes(acceleration_structure_size) ==
    {acceleration_structure_size, acceleration_structure_size \div 2}

\* variant: run_asset_commands returns without waiting for its fence
WaitForFencesNoWait(gpu) == TRUE

\* run_asset_commands: wait_for_fences returns once the submission completed
WaitForFences(gpu) == gpu = "complete"

DefaultBLAS ==
    [vertex_buffer |-> DefaultBuffer, index_buffer |-> DefaultBuffer,
     geometry_to_index_offset |-> DefaultBuffer, geometry_to_material |-> DefaultBuffer,
     acceleration_structure |-> [handle |-> 0, buffer |-> DefaultBuffer],
     textures |-> {}]

\* the mesh Prepare worker before it received a snapshot
NoPrep ==
    [pc |-> "idle", mesh |-> <<>>, supported |-> <<>>, gpu |-> "idle",
     before |-> [buffers |-> {}, images |-> {}],
     host |-> <<>>, dev |-> <<>>,
     acc |-> [handle |-> 0, buffer |-> DefaultBuffer],
     scratch |-> DefaultBuffer, query_pool |-> 0,
     compacted |-> [handle |-> 0, buffer |-> DefaultBuffer],
     material |-> DefaultBuffer,
     blas |-> DefaultBLAS,
     created |-> {}, direct |-> <<>>, log |-> <<>>]

\* the native buffers among the directly destroyed objects
DirectBuffers(direct) == {d[2] : d \in {e \in Range(direct) : e[1] = "Buffer"}} \ {0}

\* one step of the worker: its record, the allocator maps, the handle
\* counter, the descriptor map, its thread state and what it sent to Publish
MeshStep(p, map, n, imap, g, w, out) ==
    /\ prep' = p
    /\ buffer_to_allocation' = map
    /\ nbuf' = n
    /\ image_to_allocation' = imap
    /\ g_descriptors' = g
    /\ wpc' = w
    /\ recv_prepared' = ChanSend(recv_prepared, out)
    /\ freed' = freed \cup DirectBuffers(p.direct)
    /\ UNCHANGED <<mainpc, stage_todo, nother, hazard, kpending, assets, asset_events,
                   send_extracted, wcur, lookup, nsnap, nedits, installLog, destroyed, ranBusy,
                   cleanVars, gpuVars, composedVars, sbtVars, sceneVars, buffers, released, use, auxVars>>

\* prepare_asset up to the first submission: the host buffers are created
\* and mapped, extract_mesh_data fills them, the device buffers are created
\* and the upload is submitted
PrepStart(mesh, supported) ==
    /\ prep.pc = "idle"
    /\ wpc = "recv"
    /\ LET sizes == extract_mesh_sizes(mesh)
           a1 == create_buffer(sizes.vertex_count, buffer_to_allocation, nbuf)
           a2 == create_buffer(sizes.index_count, a1.map, a1.n)
           mapped == /\ map_buffer(a1.buffer, a2.map) = "view"
                     /\ map_buffer(a2.buffer, a2.map) = "view"
           a3 == create_buffer(Len(mesh), a2.map, a2.n)
           data == extract_mesh_data(mesh)
           a4 == create_buffer(sizes.vertex_count, a3.map, a3.n)
           a5 == create_buffer(sizes.index_count, a4.map, a4.n)
           a6 == create_buffer(Len(mesh), a5.map, a5.n)
           base == [prep EXCEPT !.mesh = mesh, !.supported = supported,
                                !.before = [buffers |-> buffer_to_allocation,
                                            images |-> image_to_allocation]]
       IN IF ~mapped
          THEN MeshStep([base EXCEPT !.pc = "dead", !.host = <<a1.buffer, a2.buffer>>,
                                     !.created = {<<"Buffer", a1.buffer.handle>>,
                                                  <<"Buffer", a2.buffer.handle>>},
                                     !.log = <<"panic">>],
                        a2.map, a2.n, image_to_allocation, g_descriptors, "dead", <<>>)
          ELSE IF data.panic
          THEN MeshStep([base EXCEPT !.pc = "dead",
                                     !.host = <<a1.buffer, a2.buffer, a3.buffer>>,
                                     !.created = {<<"Buffer", a1.buffer.handle>>,
                                                  <<"Buffer", a2.buffer.handle>>,
                                                  <<"Buffer", a3.buffer.handle>>},
                                     !.log = <<"panic">>],
                        a3.map, a3.n, image_to_allocation, g_descriptors, "dead", <<>>)
          ELSE MeshStep([base EXCEPT !.pc = "upload", !.gpu = "pending",
                                     !.host = <<a1.buffer, a2.buffer, a3.buffer>>,
                                     !.dev = <<a4.buffer, a5.buffer, a6.buffer>>,
                                     !.created = {<<"Buffer", b.handle>> :
                                                    b \in {a1.buffer, a2.buffer, a3.buffer,
                                                           a4.buffer, a5.buffer, a6.buffer}},
                                     !.log = <<"submit_upload">>],
                        a6.map, a6.n, image_to_allocation, g_descriptors, "preparing", <<>>)

\* the GPU finishes the commands the worker submitted
AssetGpuCompletes ==
    /\ prep.gpu = "pending"
    /\ MeshStep([prep EXCEPT !.gpu = "complete", !.log = Append(@, prep.pc \o "_complete")],
                buffer_to_allocation, nbuf, image_to_allocation, g_descriptors, wpc, <<>>)

\* variant: the scratch buffer outlives the preparation
DestroyAfterBuildNothing(scratch) == <<>>

\* what prepare_asset destroys right after the build
DestroyAfterBuild(scratch) == << <<"Buffer", scratch.handle>> >>

\* destroy_buffer on each Buffer entry of a list of directly destroyed objects
RECURSIVE DestroyAll(_, _)
DestroyAll(objects, map) ==
    IF objects = <<>> THEN map
    ELSE DestroyAll(Tail(objects),
                    IF Head(objects)[1] = "Buffer" THEN HashMapRemove(map, Head(objects)[2])
                    ELSE map)

\* the host buffers are destroyed, the acceleration structure and the
\* scratch buffer are allocated and the build is submitted
AfterUpload ==
    /\ prep.pc = "upload"
    /\ WaitForFences(prep.gpu)
    /\ LET gone == [i \in 1..3 |-> <<"Buffer", prep.host[i].handle>>]
           map0 == DestroyAll(gone, buffer_to_allocation)
           sizes == BuildSizes(PrimitiveCount(extract_mesh_data(prep.mesh).geometries,
                                              Len(prep.mesh)))
           a1 == create_buffer(sizes.acceleration_structure_size, map0, nbuf)
           handle == a1.n + 1
           a2 == create_buffer(sizes.build_scratch_size + ScratchAlignment, a1.map, handle)
       IN MeshStep([prep EXCEPT !.pc = "build", !.gpu = "pending",
                                !.acc = [handle |-> handle, buffer |-> a1.buffer],
                                !.scratch = a2.buffer,
                                !.direct = @ \o gone,
                                !.created = @ \cup {<<"Buffer", a1.buffer.handle>>,
                                                    <<"AccelerationStructure", handle>>,
                                                    <<"Buffer", a2.buffer.handle>>},
                                !.log = Append(@, "submit_build")],
                   a2.map, a2.n, image_to_allocation, g_descriptors, wpc, <<>>)

\* the scratch buffer is destroyed, the query pool is created and its reset
\* is submitted
AfterBuild ==
    /\ prep.pc = "build"
    /\ WaitForFences(prep.gpu)
    /\ LET gone == DestroyAfterBuild(prep.scratch)
       IN MeshStep([prep EXCEPT !.pc = "reset", !.gpu = "pending",
                                !.query_pool = nbuf + 1,
                                !.direct = @ \o gone,
                                !.created = @ \cup {<<"QueryPool", nbuf + 1>>},
                                !.log = Append(@, "submit_reset")],
                   DestroyAll(gone, buffer_to_allocation), nbuf + 1, image_to_allocation,
                   g_descriptors, wpc, <<>>)

\* the write of the compacted size into the query pool is submitted
AfterReset ==
    /\ prep.pc = "reset"
    /\ WaitForFences(prep.gpu)
    /\ MeshStep([prep EXCEPT !.pc = "query", !.gpu = "pending",
                             !.log = Append(@, "submit_query")],
                buffer_to_allocation, nbuf, image_to_allocation, g_descriptors, wpc, <<>>)

\* get_query_pool_results(WAIT) gives the compacted size; the compacted
\* buffer and structure are created and the compacting copy is submitted
AfterQuery(compacted_size) ==
    /\ prep.pc = "query"
    /\ WaitForFences(prep.gpu)
    /\ compacted_size \in CompactedSizes(prep.acc.buffer.nr_elements)
    /\ LET a1 == create_buffer(compacted_size, buffer_to_allocation, nbuf)
           handle == a1.n + 1
       IN MeshStep([prep EXCEPT !.pc = "copy", !.gpu = "pending",
                                !.compacted = [handle |-> handle, buffer |-> a1.buffer],
                                !.created = @ \cup {<<"Buffer", a1.buffer.handle>>,
                                                    <<"AccelerationStructure", handle>>},
                                !.log = @ \o <<"query_read", "submit_copy">>],
                   a1.map, handle, image_to_allocation, g_descriptors, wpc, <<>>)

\* load_cached_texture over the images the primitives refer to, in order:
\* an image already loaded gives its slot, an unsupported format gives
\* nothing, any other image is loaded by load_texture_from_bytes (staging
\* buffer, image and allocation, copy, staging buffer destroyed, view) and
\* gets a slot
RECURSIVE LoadTextures(_, _, _)
LoadTextures(refs, supported, st) ==
    IF refs = <<>> THEN st
    ELSE IF \E t \in st.textures : t.idx = Head(refs)
    THEN LoadTextures(Tail(refs), supported, st)
    ELSE IF ~supported[Head(refs)]
    THEN LoadTextures(Tail(refs), supported, st)
    ELSE LET staging == create_buffer(1, st.map, st.n)
             image == staging.n + 1
             view == staging.n + 2
         IN LoadTextures(Tail(refs), supported,
                [map |-> HashMapRemove(staging.map, staging.buffer.handle),
                 imap |-> HashMapInsert(st.imap, image, image).map,
                 n |-> view,
                 g |-> get_texture_descriptor_index(view, st.g).g,
                 textures |-> st.textures \cup {[idx |-> Head(refs), handle |-> image,
                                                view |-> view]},
                 direct |-> Append(st.direct, <<"Buffer", staging.buffer.handle>>),
                 created |-> st.created \cup {<<"Buffer", staging.buffer.handle>>,
                                              <<"Image", image>>, <<"ImageView", view>>}])

\* the images the materials of a mesh refer to, in primitive order
RECURSIVE TextureRefs(_)
TextureRefs(mesh) ==
    IF mesh = <<>> THEN <<>>
    ELSE (IF Head(mesh).texture = 0 THEN <<>> ELSE <<Head(mesh).texture>>) \o TextureRefs(Tail(mesh))

\* acceleration_structure.buffer = compacted_buffer; .handle = compacted_as
ResultStructure(original, compacted) == compacted

\* the original structure, its buffer and the query pool are destroyed, the
\* result takes the compacted structure; the materials are written, their
\* textures loaded, and the upload of the materials is submitted
AfterCopy ==
    /\ prep.pc = "copy"
    /\ WaitForFences(prep.gpu)
    /\ LET gone == << <<"AccelerationStructure", prep.acc.handle>>,
                      <<"Buffer", prep.acc.buffer.handle>>,
                      <<"QueryPool", prep.query_pool>> >>
           map0 == DestroyAll(gone, buffer_to_allocation)
           a1 == create_buffer(Len(prep.mesh), map0, nbuf)
           tex == LoadTextures(TextureRefs(prep.mesh), prep.supported,
                               [map |-> a1.map, imap |-> image_to_allocation, n |-> a1.n,
                                g |-> g_descriptors, textures |-> {},
                                direct |-> prep.direct \o gone,
                                created |-> prep.created \cup {<<"Buffer", a1.buffer.handle>>}])
           a2 == create_buffer(a1.buffer.nr_elements, tex.map, tex.n)
       IN /\ map_buffer(a1.buffer, a1.map) = "view"
          /\ MeshStep([prep EXCEPT !.pc = "materials", !.gpu = "pending",
                                   !.material = a1.buffer,
                                   !.blas = [vertex_buffer |-> prep.dev[1],
                                             index_buffer |-> prep.dev[2],
                                             geometry_to_index_offset |-> prep.dev[3],
                                             geometry_to_material |-> a2.buffer,
                                             acceleration_structure |->
                                                 ResultStructure(prep.acc, prep.compacted),
                                             textures |-> tex.textures],
                                   !.direct = tex.direct,
                                   !.created = tex.created \cup {<<"Buffer", a2.buffer.handle>>},
                                   !.log = @ \o <<"destroy_original", "submit_materials">>],
                      a2.map, a2.n, tex.imap, tex.g, wpc, <<>>)

\* the host copy of the materials is destroyed and the prepared mesh is
\* sent to Publish: send_prepared.send((handle_id, prepared))
AfterMaterials ==
    /\ prep.pc = "materials"
    /\ WaitForFences(prep.gpu)
    /\ LET gone == << <<"Buffer", prep.material.handle>> >>
       IN MeshStep([prep EXCEPT !.pc = "done", !.gpu = "idle",
                                !.direct = @ \o gone,
                                !.log = Append(@, "sent")],
                   DestroyAll(gone, buffer_to_allocation), nbuf, image_to_allocation,
                   g_descriptors, "recv", << <<1, 1>> >>)

\* GltfMesh::destroy_asset, its last two sends
MeshDestroyTail(blas) ==
    << <<"AccelerationStructure", blas.acceleration_structure.handle>>,
       <<"Buffer", blas.acceleration_structure.buffer.handle>> >>

\* GltfMesh::destroy_asset: view and image of every texture, the four data
\* buffers, the structure, its backing buffer
MeshDestroyEvents(blas, order) ==
    Flatten([i \in 1..Len(order) |->
                << <<"ImageView", order[i].view>>, <<"Image", order[i].handle>> >>])
        \o << <<"Buffer", blas.vertex_buffer.handle>>,
              <<"Buffer", blas.index_buffer.handle>>,
              <<"Buffer", blas.geometry_to_index_offset.handle>>,
              <<"Buffer", blas.geometry_to_material.handle>> >>
        \o MeshDestroyTail(blas)

\* the main thread passes the prepared mesh to destroy_asset
DestroyMesh ==
    /\ prep.pc = "done"
    /\ mainpc \in {"update", "extract"}
    /\ \E order \in Perms(prep.blas.textures) :
          MainSends(MeshDestroyEvents(prep.blas, order))
    /\ prep' = [prep EXCEPT !.pc = "destroyed"]
    /\ UNCHANGED <<mainpc, stage_todo, nother, pipeVars, cpc, cycle_buffer, execLog, age, gpuVars,
                   composedVars, sbtVars, sceneVars, bufVars, imgVars, auxVars, use, g_descriptors>>

(* --------------------------- scratch addresses ------------------------- *)
NoScratch == [builder |-> "none", address |-> 0, alignment |-> 1, device_address |-> 0]

\* GltfMesh::prepare_asset: the address is moved up to the next multiple of
\* the alignment inside a buffer made scratch_alignment bytes longer
mesh_scratch_address(address, scratch_alignment) ==
    address + scratch_alignment - (address % scratch_alignment)

\* update_scene: the same rounding for the TLAS build
tlas_scratch_address(address, scratch_alignment) ==
    address + scratch_alignment - (address % scratch_alignment)

\* SphereBLAS::make_one: the address of the scratch buffer as allocated
sphere_scratch_address(address, scratch_alignment) == address

ScratchBuilders == {"mesh", "tlas", "sphere"}

ScratchAddress(builder, address, scratch_alignment) ==
    CASE builder = "mesh" -> mesh_scratch_address(address, scratch_alignment)
      [] builder = "tlas" -> tlas_scratch_address(address, scratch_alignment)
      [] builder = "sphere" -> sphere_scratch_address(address, scratch_alignment)

\* a build command is recorded with the scratch buffer allocated at address
\* on a device with the given min_acceleration_structure_scratch_offset_alignment
RecordBuild(builder, address, scratch_alignment) ==
    /\ scratch_use' = [builder |-> builder, address |-> address,
                       alignment |-> scratch_alignment,
                       device_address |-> ScratchAddress(builder, address, scratch_alignment)]
    /\ UNCHANGED <<coreVars, lockVars, trace>>

(* ------------------------ device calls of the threads ------------------ *)
\* the main thread, the Prepare workers of render_image::Image, GltfMesh and
\* bevy's Image, and the cleanup worker; all share one RenderDevice
Threads == {"main", "image", "mesh", "texture", "cleanup"}

Views == 1..NumViews

IdleThread == [pc |-> "idle", view |-> 0, index |-> 0]

\* the device calls a thread makes; get_texture_descriptor_index is public on
\* the shared device and is given to every worker that uploads textures
Calls(t) ==
    CASE t = "main" -> {"render", "run_single_commands", "wait_idle", "write_alloc", "read_alloc"}
      [] t = "image" -> {"run_single_commands", "write_alloc"}
      [] t = "mesh" -> {"run_asset_commands", "get_texture_descriptor_index", "write_alloc",
                        "read_alloc"}
      [] t = "texture" -> {"run_asset_commands", "get_texture_descriptor_index", "write_alloc",
                           "read_alloc"}
      [] t = "cleanup" -> {"wait_idle", "write_alloc"}

\* the first position of a call
EntryOf(op) ==
    CASE op = "render" -> "frame_record"
      [] op = "run_single_commands" -> "single_lock"
      [] op = "run_asset_commands" -> "asset_pool_lock"
      [] op = "wait_idle" -> "idle_lock"
      [] op = "get_texture_descriptor_index" -> "desc_lock"
      [] op = "write_alloc" -> "alloc_write_lock"
      [] op = "read_alloc" -> "alloc_read_lock"

\* variant: lock() returns whoever holds the mutex
TryLockAlways(holder) == TRUE

\* Mutex::lock returns once no thread holds the mutex
TryLock(holder) == holder = "free"

\* positions at which a thread is inside vkQueueSubmit, vkQueuePresentKHR or
\* vkQueueWaitIdle
QueuePositions == {"asset_submit", "single_submit", "frame_submit", "present", "wait_idle"}

\* the command pool a thread is allocating from or recording into at a
\* position: the frame command buffer and single_time_command_buffer are both
\* allocated from command_pool
PoolAt(pc) ==
    CASE pc = "asset_record" -> "asset_command_pool"
      [] pc \in {"single_record", "frame_record"} -> "command_pool"
      [] OTHER -> "none"

Goto(t, pc) == thr' = [thr EXCEPT ![t].pc = pc]

\* everything the device calls leave alone, g_descriptors apart
deviceCore == <<mainpc, stage_todo, nother, hazard, kpending, pipeVars, cleanVars, gpuVars,
                composedVars, sbtVars, sceneVars, bufVars, use, prep, imgVars, scratch_use,
                trace>>

deviceRest == <<deviceCore, alloc>>

\* a thread enters one of its device calls
Call(t, op, view) ==
    /\ thr[t].pc = "idle"
    /\ op \in Calls(t)
    /\ thr' = [thr EXCEPT ![t] = [pc |-> EntryOf(op),
                                  view |-> IF op = "get_texture_descriptor_index" THEN view ELSE 0,
                                  index |-> 0]]
    /\ UNCHANGED <<queue, asset_command_pool, g_descriptors_lock, slotLog, g_descriptors, deviceRest>>

\* run_asset_commands: the pool's mutex is taken before the allocation
AssetLockPool(t) ==
    /\ thr[t].pc = "asset_pool_lock"
    /\ TryLock(asset_command_pool)
    /\ asset_command_pool' = t
    /\ Goto(t, "asset_record")
    /\ UNCHANGED <<queue, g_descriptors_lock, slotLog, g_descriptors, deviceRest>>

\* run_asset_commands: allocate, begin, f(cmd_buffer), end
AssetEndRecord(t) ==
    /\ thr[t].pc = "asset_record"
    /\ Goto(t, "asset_queue_lock")
    /\ UNCHANGED <<queue, asset_command_pool, g_descriptors_lock, slotLog, g_descriptors, deviceRest>>

\* run_asset_commands: the queue is locked around queue_submit only
AssetLockQueue(t) ==
    /\ thr[t].pc = "asset_queue_lock"
    /\ TryLock(queue)
    /\ queue' = t
    /\ Goto(t, "asset_submit")
    /\ UNCHANGED <<asset_command_pool, g_descriptors_lock, slotLog, g_descriptors, deviceRest>>

AssetSubmitted(t) ==
    /\ thr[t].pc = "asset_submit"
    /\ queue' = "free"
    /\ Goto(t, "asset_wait")
    /\ UNCHANGED <<asset_command_pool, g_descriptors_lock, slotLog, g_descriptors, deviceRest>>

\* run_asset_commands: the fence is signalled, the pool's guard is dropped at
\* the end of the function
AssetReturn(t) ==
    /\ thr[t].pc = "asset_wait"
    /\ asset_command_pool' = "free"
    /\ Goto(t, "idle")
    /\ UNCHANGED <<queue, g_descriptors_lock, slotLog, g_descriptors, deviceRest>>

\* run_single_commands: the queue is locked for the whole function
SingleLockQueue(t) ==
    /\ thr[t].pc = "single_lock"
    /\ TryLock(queue)
    /\ queue' = t
    /\ Goto(t, "single_record")
    /\ UNCHANGED <<asset_command_pool, g_descriptors_lock, slotLog, g_descriptors, deviceRest>>

\* variant: the recorded commands are sent with run_asset_commands while the
\* queue's guard is held
SingleSubmitNested == "asset_pool_lock"

\* run_single_commands submits its command buffer itself, under the guard it
\* took on entry
SingleSubmit == "single_submit"

\* run_single_commands: reset, begin, f(single_time_command_buffer), end
SingleEndRecord(t) ==
    /\ thr[t].pc = "single_record"
    /\ Goto(t, SingleSubmit)
    /\ UNCHANGED <<queue, asset_command_pool, g_descriptors_lock, slotLog, g_descriptors, deviceRest>>

SingleSubmitted(t) ==
    /\ thr[t].pc = "single_submit"
    /\ Goto(t, "single_wait")
    /\ UNCHANGED <<queue, asset_command_pool, g_descriptors_lock, slotLog, g_descriptors, deviceRest>>

SingleReturn(t) ==
    /\ thr[t].pc = "single_wait"
    /\ queue' = "free"
    /\ Goto(t, "idle")
    /\ UNCHANGED <<asset_command_pool, g_descriptors_lock, slotLog, g_descriptors, deviceRest>>

\* render: the frame command buffer is reset and recorded with no lock held
FrameEndRecord(t) ==
    /\ thr[t].pc = "frame_record"
    /\ Goto(t, "frame_queue_lock")
    /\ UNCHANGED <<queue, asset_command_pool, g_descriptors_lock, slotLog, g_descriptors, deviceRest>>

FrameLockQueue(t) ==
    /\ thr[t].pc = "frame_queue_lock"
    /\ TryLock(queue)
    /\ queue' = t
    /\ Goto(t, "frame_submit")
    /\ UNCHANGED <<asset_command_pool, g_descriptors_lock, slotLog, g_descriptors, deviceRest>>

FrameSubmitted(t) ==
    /\ thr[t].pc = "frame_submit"
    /\ queue' = "free"
    /\ Goto(t, "present_lock")
    /\ UNCHANGED <<asset_command_pool, g_descriptors_lock, slotLog, g_descriptors, deviceRest>>

PresentLockQueue(t) ==
    /\ thr[t].pc = "present_lock"
    /\ TryLock(queue)
    /\ queue' = t
    /\ Goto(t, "present")
    /\ UNCHANGED <<asset_command_pool, g_descriptors_lock, slotLog, g_descriptors, deviceRest>>

Presented(t) ==
    /\ thr[t].pc = "present"
    /\ queue' = "free"
    /\ Goto(t, "idle")
    /\ UNCHANGED <<asset_command_pool, g_descriptors_lock, slotLog, g_descriptors, deviceRest>>

\* wait_idle
IdleLockQueue(t) ==
    /\ thr[t].pc = "idle_lock"
    /\ TryLock(queue)
    /\ queue' = t
    /\ Goto(t, "wait_idle")
    /\ UNCHANGED <<asset_command_pool, g_descriptors_lock, slotLog, g_descriptors, deviceRest>>

IdleReturn(t) ==
    /\ thr[t].pc = "wait_idle"
    /\ queue' = "free"
    /\ Goto(t, "idle")
    /\ UNCHANGED <<asset_command_pool, g_descriptors_lock, slotLog, g_descriptors, deviceRest>>

\* get_texture_descriptor_index: the guard is taken on entry
DescLock(t) ==
    /\ thr[t].pc = "desc_lock"
    /\ TryLock(g_descriptors_lock)
    /\ g_descriptors_lock' = t
    /\ Goto(t, "desc_lookup")
    /\ UNCHANGED <<queue, asset_command_pool, slotLog, g_descriptors, deviceRest>>

\* get_texture_descriptor_index: the lookup, and the read of the generator
\* on a miss
DescLookup(t) ==
    /\ thr[t].pc = "desc_lookup"
    /\ thr' = [thr EXCEPT ![t] =
                 IF \E en \in g_descriptors.g_descriptor_map : en[1] = thr[t].view
                 THEN [thr[t] EXCEPT !.pc = "desc_memo",
                                     !.index = SlotOf(thr[t].view, g_descriptors)]
                 ELSE [thr[t] EXCEPT !.pc = "desc_insert",
                                     !.index = g_descriptors.g_descriptor_idx_gen]]
    /\ UNCHANGED <<queue, asset_command_pool, g_descriptors_lock, slotLog, g_descriptors, deviceRest>>

\* get_texture_descriptor_index: insert, advance the generator, write the
\* descriptor
DescInsert(t) ==
    /\ thr[t].pc = "desc_insert"
    /\ g_descriptors' =
         [g_descriptor_map |->
              {en \in g_descriptors.g_descriptor_map : en[1] # thr[t].view}
                  \cup {<<thr[t].view, thr[t].index>>},
          g_descriptor_idx_gen |-> NextSlot(g_descriptors.g_descriptor_idx_gen)]
    /\ Goto(t, "desc_new")
    /\ UNCHANGED <<queue, asset_command_pool, g_descriptors_lock, slotLog, deviceRest>>

\* get_texture_descriptor_index returns and the guard is dropped
DescReturn(t) ==
    /\ thr[t].pc \in {"desc_memo", "desc_new"}
    /\ slotLog' = slotLog \cup
         {<<thr[t].view, thr[t].index, IF thr[t].pc = "desc_memo" THEN "memo" ELSE "new">>}
    /\ g_descriptors_lock' = "free"
    /\ thr' = [thr EXCEPT ![t] = IdleThread]
    /\ UNCHANGED <<queue, asset_command_pool, g_descriptors, deviceRest>>

(* --------------------------- specification ----------------------------- *)
InitState ==
    /\ mainpc = "update"
    /\ stage_todo = {}
    /\ assets = {}
    /\ asset_events = <<>>
    /\ send_extracted = <<>>
    /\ wpc = "recv"
    /\ wcur = <<0, 0>>
    /\ recv_prepared = <<>>
    /\ lookup = {}
    /\ nsnap = 0
    /\ nedits = 0
    /\ nother = 0
    /\ cleanup_chan = <<>>
    /\ cpc = "recv"
    /\ cycle_buffer = NewCycleBuffer
    /\ fence = TRUE
    /\ gpu_frames = 0
    /\ execLog = <<>>
    /\ age = [e \in DestructionEvents |-> 0]
    /\ hazard = [e \in DestructionEvents |-> 0]
    /\ kpending = [e \in DestructionEvents |-> FALSE]
    /\ installLog = <<>>
    /\ destroyed = [p \in 1..MaxEdits |-> 0]
    /\ ranBusy = {}
    /\ shaders = {}
    /\ dep_events = {}
    /\ promoted = {}
    /\ nloads = 0
    /\ rt_pipeline = 0
    /\ meshes = {}
    /\ sbt = DefaultSBT
    /\ sbt_changed = FALSE
    /\ sbtLog = <<>>
    /\ scene = DefaultScene
    /\ sceneLog = <<>>
    /\ buffer_to_allocation = {}
    /\ nbuf = 0
    /\ buffers = <<>>
    /\ freed = {}
    /\ released = {}
    /\ use = NoUse
    /\ image_to_allocation = {}
    /\ g_descriptors = DefaultGDescriptorMap
    /\ prep = NoPrep
    /\ scratch_use = NoScratch
    /\ thr = [t \in Threads |-> IdleThread]
    /\ queue = "free"
    /\ asset_command_pool = "free"
    /\ g_descriptors_lock = "free"
    /\ slotLog = {}
    /\ trace = NoTrace
    /\ alloc = [writer |-> "free", readers |-> {}]

\* a device with the alignments of common hardware
Init == InitState /\ rtprops = [shader_group_handle_alignment |-> 32, shader_group_base_alignment |-> 64]

\* any device
InitAnyDevice == InitState /\ rtprops \in RtProps

Next ==
    \/ MainThread
    \/ \E h \in Handles : HostAssetEvent(h)
    \/ prepare_asset
    \/ vulkan_cleanup_worker
    \/ GpuCompletes

\* the whole program
Spec == Init /\ [][Next]_vars

\* the deferred destruction queue under the frame loop, with no asset edited:
\* resources are handed to the queue by the other systems and at shutdown
CleanupNext ==
    \/ MainThread
    \/ vulkan_cleanup_worker
    \/ GpuCompletes

CleanupSpec == Init /\ [][CleanupNext]_vars

\* the same with a late sender; the worker thread and the joining main thread
\* are scheduled and the GPU finishes what was submitted
ShutdownNext == CleanupNext \/ LateSend

ShutdownFairSpec ==
    /\ Init /\ [][ShutdownNext]_vars
    /\ WF_vars(vulkan_cleanup_worker)
    /\ WF_vars(GpuCompletes)
    /\ WF_vars(Joined)

\* the asset pipeline under the frame loop: the only resources handed to the
\* queue are superseded assets and what the shutdown playbook drains
PipelineNext ==
    \/ MainFrame
    \/ \E h \in Handles : HostAssetEvent(h)
    \/ prepare_asset
    \/ vulkan_cleanup_worker
    \/ GpuCompletes

PipelineSpec == Init /\ [][PipelineNext]_vars

\* the asset pipeline with a host that also removes assets
RemovalNext ==
    \/ wait_for_frame_finish \/ extract_vulkan_asset \/ publish_vulkan_asset
    \/ EndExtractStage \/ render \/ NextFrame \/ shutdown
    \/ \E h \in Handles : HostAssetEvent(h)
    \/ \E h \in Handles : HostRemoved(h)
    \/ PrepareRecv \/ PrepareDone
    \/ CleanupPush \/ CleanupNextFrame
    \/ GpuCompletes

RemovalSpec == Init /\ [][RemovalNext]_vars

\* every thread keeps being scheduled and the GPU finishes what it is given
PipelineFairSpec ==
    /\ PipelineSpec
    /\ WF_vars(MainFrame)
    /\ WF_vars(prepare_asset)
    /\ WF_vars(vulkan_cleanup_worker)
    /\ WF_vars(GpuCompletes)

\* the frame loop without its exit, for an asset type T
FrameLoop(extract) ==
    \/ wait_for_frame_finish \/ extract \/ publish_vulkan_asset
    \/ EndExtractStage \/ render \/ NextFrame

\* a composed asset type under the frame loop: pipelines are added and
\* edited, their shaders load at any time
ComposedNext ==
    \/ FrameLoop(extract_pipeline_asset)
    \/ promote_composed_asset_events
    \/ \E h \in Handles : HostAssetEvent(h)
    \/ \E sh \in ShaderHandles : LoadShader(sh)
    \/ PrepareRecv \/ PrepareDone
    \/ CleanupPush \/ CleanupNextFrame
    \/ GpuCompletes

ComposedSpec == Init /\ [][ComposedNext]_vars

\* every thread keeps being scheduled (promote_composed_asset_events runs in
\* every frame) and the GPU finishes what it is given;
\* the host need not load or edit anything
ComposedFairSpec ==
    /\ ComposedSpec
    /\ WF_vars(FrameLoop(extract_pipeline_asset))
    /\ SF_vars(promote_composed_asset_events)
    /\ WF_vars(PrepareRecv \/ PrepareDone)
    /\ WF_vars(CleanupPush \/ CleanupNextFrame)
    /\ WF_vars(GpuCompletes)

\* the SBT on any device: meshes and pipelines are published, update_sbt
\* runs when one of them changed
SbtNext ==
    \/ update_sbt
    \/ \E h \in 1..NumMeshes : PublishMesh(h)
    \/ PublishPipeline

SbtSpec == InitAnyDevice /\ [][SbtNext]_vars

\* the frame loop with what render's conditions look at: the pipeline and the
\* skybox are published and update_sbt runs in RenderSet::Extract,
\* update_scene runs among the update systems over a world of spheres
GateNext ==
    \/ wait_for_frame_finish \/ extract_vulkan_asset \/ publish_vulkan_asset
    \/ EndExtractStage \/ render \/ NextFrame
    \/ (mainpc = "extract" /\ PublishPipeline)
    \/ (mainpc = "extract" /\ PublishSkybox)
    \/ (mainpc = "extract" /\ update_sbt)
    \/ \E spheres \in 0..1 : update_scene_resolved(spheres, {}, 1)
    \/ GpuCompletes

GateSpec == Init /\ [][GateNext]_vars

\* the frame loop with the systems that feed the trace-rays command: meshes,
\* the pipeline and the skybox are published and update_sbt runs in
\* RenderSet::Extract, update_scene runs among the update systems over a
\* world with one entity per mesh; the cleanup worker takes the frame signals
TraceNext ==
    \/ wait_for_frame_finish \/ extract_vulkan_asset \/ publish_vulkan_asset
    \/ EndExtractStage \/ render \/ NextFrame
    \/ (mainpc = "extract" /\ \E h \in 1..NumMeshes : PublishMesh(h))
    \/ (mainpc = "extract" /\ PublishPipeline)
    \/ (mainpc = "extract" /\ PublishSkybox)
    \/ (mainpc = "extract" /\ update_sbt)
    \/ update_scene_resolved(0, 1..NumMeshes, 1)
    \/ CleanupNextFrame
    \/ GpuCompletes

TraceSpec == Init /\ [][TraceNext]_vars

\* the scene: update_scene runs with any number of resolved renderables
SceneNext == \E instances \in 0..MaxInstances, pose \in 1..NumPoses : update_scene(instances, pose)

SceneSpec == Init /\ [][SceneNext]_vars

\* the scene from its first update to the shutdown playbook; no worker takes
\* from the channel, which therefore holds every event sent, in order
SceneLifeNext ==
    \/ \E instances \in 0..MaxInstances, pose \in 1..NumPoses : update_scene(instances, pose)
    \/ shutdown_playbook

SceneLifeSpec == Init /\ [][SceneLifeNext]_vars

\* buffers under the frame loop: components create buffers, destroy them or
\* hand them to the cleanup worker
BufferNext ==
    \/ \E n \in ElementCounts : CreateBuffer(n)
    \/ \E i \in 1..MaxBuffers : HandOffBuffer(i)
    \/ \E i \in 1..MaxBuffers : destroy_buffer(i)
    \/ FrameLoop(extract_vulkan_asset)
    \/ CleanupPush \/ CleanupNextFrame
    \/ GpuCompletes

BufferSpec == Init /\ [][BufferNext]_vars

\* the consumers of buffers next to their owners and the cleanup worker
ConsumerNext ==
    \/ \E i \in 1..MaxBuffers : MapBuffer(i)
    \/ \E i, j \in 1..MaxBuffers : UploadBuffer(i, j)
    \/ BufferNext

ConsumerSpec == Init /\ [][ConsumerNext]_vars

\* one mesh through the Prepare worker and destroy_asset, next to the
\* cleanup worker; the run ends with the shutdown flush
MeshNext ==
    \/ \E mesh \in Meshes, supported \in [1..NumImages -> BOOLEAN] : PrepStart(mesh, supported)
    \/ AssetGpuCompletes
    \/ AfterUpload
    \/ AfterBuild
    \/ AfterReset
    \/ \E compacted_size \in CompactedSizes(prep.acc.buffer.nr_elements) :
          AfterQuery(compacted_size)
    \/ AfterCopy
    \/ AfterMaterials
    \/ DestroyMesh
    \/ shutdown \/ Joined
    \/ CleanupPush \/ CleanupShutdown \/ CleanupFlush

MeshSpec == Init /\ [][MeshNext]_vars

\* build commands of the three builders, for every device alignment and
\* every address the allocator may return
ScratchNext ==
    \E builder \in ScratchBuilders, address \in 1..MaxAddress, scratch_alignment \in Alignments :
       RecordBuild(builder, address, scratch_alignment)

ScratchSpec == Init /\ [][ScratchNext]_vars

\* the calls that submit to the queue or record commands, in every
\* interleaving of the five threads
QueueNext ==
    \/ \E t \in Threads, op \in {"render", "run_single_commands", "run_asset_commands",
                                 "wait_idle"} : Call(t, op, 0)
    \/ \E t \in Threads : AssetLockPool(t)
    \/ \E t \in Threads : AssetEndRecord(t)
    \/ \E t \in Threads : AssetLockQueue(t)
    \/ \E t \in Threads : AssetSubmitted(t)
    \/ \E t \in Threads : AssetReturn(t)
    \/ \E t \in Threads : SingleLockQueue(t)
    \/ \E t \in Threads : SingleEndRecord(t)
    \/ \E t \in Threads : SingleSubmitted(t)
    \/ \E t \in Threads : SingleReturn(t)
    \/ \E t \in Threads : FrameEndRecord(t)
    \/ \E t \in Threads : FrameLockQueue(t)
    \/ \E t \in Threads : FrameSubmitted(t)
    \/ \E t \in Threads : PresentLockQueue(t)
    \/ \E t \in Threads : Presented(t)
    \/ \E t \in Threads : IdleLockQueue(t)
    \/ \E t \in Threads : IdleReturn(t)

QueueSpec == Init /\ [][QueueNext]_vars

\* get_texture_descriptor_index called by the workers in every interleaving
DescriptorNext ==
    \/ \E t \in Threads, view \in Views : Call(t, "get_texture_descriptor_index", view)
    \/ \E t \in Threads : DescLock(t)
    \/ \E t \in Threads : DescLookup(t)
    \/ \E t \in Threads : DescInsert(t)
    \/ \E t \in Threads : DescReturn(t)

DescriptorSpec == Init /\ [][DescriptorNext]_vars

TypeOK ==
    /\ mainpc \in {"update", "wait", "extract", "render", "join", "exited", "panicked"}
    /\ cpc \in {"recv", "wait_idle", "finished"}
    /\ wpc \in {"recv", "preparing", "dead"}
    /\ gpu_frames \in 0..1

\* write_alloc in create_buffer, destroy_buffer, the image allocations and
\* the Buffer and Image destruction events: RwLock::write returns once there
\* is no writer and no reader
AllocLockWrite(t) ==
    /\ thr[t].pc = "alloc_write_lock"
    /\ TryLock(alloc.writer)
    /\ alloc.readers = {}
    /\ alloc' = [alloc EXCEPT !.writer = t]
    /\ Goto(t, "alloc_write")
    /\ UNCHANGED <<queue, asset_command_pool, g_descriptors_lock, slotLog, g_descriptors, deviceCore>>

\* the write guard is dropped at the end of its block; no other lock is
\* taken inside
AllocUnlockWrite(t) ==
    /\ thr[t].pc = "alloc_write"
    /\ alloc' = [alloc EXCEPT !.writer = "free"]
    /\ Goto(t, "idle")
    /\ UNCHANGED <<queue, asset_command_pool, g_descriptors_lock, slotLog, g_descriptors, deviceCore>>

\* read_alloc in map_buffer: RwLock::read returns once there is no writer
AllocLockRead(t) ==
    /\ thr[t].pc = "alloc_read_lock"
    /\ TryLock(alloc.writer)
    /\ alloc' = [alloc EXCEPT !.readers = @ \cup {t}]
    /\ Goto(t, "alloc_read")
    /\ UNCHANGED <<queue, asset_command_pool, g_descriptors_lock, slotLog, g_descriptors, deviceCore>>

\* map_buffer: drop(alloc) before the view is returned
AllocUnlockRead(t) ==
    /\ thr[t].pc = "alloc_read"
    /\ alloc' = [alloc EXCEPT !.readers = @ \ {t}]
    /\ Goto(t, "idle")
    /\ UNCHANGED <<queue, asset_command_pool, g_descriptors_lock, slotLog, g_descriptors, deviceCore>>

\* every call that takes a lock, in every interleaving of the five threads
LockNext ==
    \/ \E t \in Threads : \E op \in Calls(t) : Call(t, op, 1)
    \/ \E t \in Threads : AssetLockPool(t)
    \/ \E t \in Threads : AssetEndRecord(t)
    \/ \E t \in Threads : AssetLockQueue(t)
    \/ \E t \in Threads : AssetSubmitted(t)
    \/ \E t \in Threads : AssetReturn(t)
    \/ \E t \in Threads : SingleLockQueue(t)
    \/ \E t \in Threads : SingleEndRecord(t)
    \/ \E t \in Threads : SingleSubmitted(t)
    \/ \E t \in Threads : SingleReturn(t)
    \/ \E t \in Threads : FrameEndRecord(t)
    \/ \E t \in Threads : FrameLockQueue(t)
    \/ \E t \in Threads : FrameSubmitted(t)
    \/ \E t \in Threads : PresentLockQueue(t)
    \/ \E t \in Threads : Presented(t)
    \/ \E t \in Threads : IdleLockQueue(t)
    \/ \E t \in Threads : IdleReturn(t)
    \/ \E t \in Threads : DescLock(t)
    \/ \E t \in Threads : DescLookup(t)
    \/ \E t \in Threads : DescInsert(t)
    \/ \E t \in Threads : DescReturn(t)
    \/ \E t \in Threads : AllocLockWrite(t)
    \/ \E t \in Threads : AllocUnlockWrite(t)
    \/ \E t \in Threads : AllocLockRead(t)
    \/ \E t \in Threads : AllocUnlockRead(t)

LockSpec == Init /\ [][LockNext]_vars

(* ------------------------------ properties ----------------------------- *)
ExecutedEvents == [i \in 1..Len(execLog) |-> execLog[i].ev]

Pending == Flatten(cycle_buffer)

\* every destruction event the main thread has sent so far
SentEvents ==
    {<<"Buffer", k>> : k \in 1..nother}
    \cup {e \in AssetEventsOf : destroyed[e[2]] > 0}
    \cup (IF mainpc \in {"join", "exited"} THEN RenderResourceEvents ELSE {})

\* how often an event occurs in the channel, the ring and the execution history
Occurrences(e) == Count(cleanup_chan, e) + Count(Pending, e) + Count(ExecutedEvents, e)

\* the last snapshot of an identity that Extract sent and that was not lost
InPipeline == Range(send_extracted) \cup {wcur} \cup Range(recv_prepared)
                \cup {<<installLog[i][1], installLog[i][2]>> : i \in 1..Len(installLog)}

Stopped == mainpc \in {"join", "exited", "panicked"} \/ wpc = "dead"

\* C1: an event executed by a next-frame flush (that is, before shutdown) is
\* executed when the third SignalNextFrame after its receipt is processed, not
\* on the first or the second one; an event still in the ring has seen fewer
\* than three signals.
C1_ExecutedAtThirdSignal ==
    /\ \A i \in 1..Len(execLog) : execLog[i].via = "frame" => execLog[i].age = 3
    /\ \A e \in Range(Pending) : age[e] < 3

C1_Witness == \E i \in 1..Len(execLog) : execLog[i].via = "frame" /\ execLog[i].age = 3

\* C2: every destruction event sent before SignalShutdown is executed exactly
\* once over the worker's lifetime: never twice, and once the worker has
\* finished, never zero times.
C2_ExactlyOnce ==
    /\ \A e \in DestructionEvents : Count(ExecutedEvents, e) <= 1
    /\ cpc = "finished" => \A e \in SentEvents : Count(ExecutedEvents, e) = 1

C2_Witness ==
    /\ cpc = "finished"
    /\ \E i \in 1..Len(execLog) : execLog[i].via = "frame"
    /\ \E i \in 1..Len(execLog) : execLog[i].via = "shutdown" /\ execLog[i].ev \in OtherEvents

\* C3 as stated: no executed event was taken from the list being filled
\* (the back list of the ring).
C3_NeverFromBackList == \A i \in 1..Len(execLog) : ~execLog[i].back

\* C3 amended: a next-frame flush never executes an event from the list being
\* filled; only the shutdown flush executes that list, and it does so after
\* the older lists.
C3_FrameFlushNotFromBackList ==
    /\ \A i \in 1..Len(execLog) : execLog[i].via = "frame" => ~execLog[i].back
    /\ \A i, j \in 1..Len(execLog) :
         execLog[i].via = "shutdown" /\ execLog[i].back /\ execLog[j].via = "shutdown" /\ i < j
            => execLog[j].back

C3_Witness ==
    /\ \E i \in 1..Len(execLog) : execLog[i].via = "frame"
    /\ \E i \in 1..Len(execLog) : execLog[i].via = "shutdown" /\ execLog[i].back
    /\ \E i \in 1..Len(execLog) : execLog[i].via = "shutdown" /\ ~execLog[i].back

\* C4: the shutdown flush executes events only after the idle wait has
\* returned (the GPU queue is idle), oldest list first and the current list
\* last, in insertion order within a list, drains every list, and the worker
\* then terminates; while the worker waits nothing is executed by the flush.
C4_ShutdownFlushAfterIdle ==
    /\ \A i \in 1..Len(execLog) :
         execLog[i].via = "shutdown" => execLog[i].idle /\ cpc = "finished"
    /\ \A i \in 1..Len(execLog) :
         i > 1 /\ execLog[i].via = "shutdown" /\ execLog[i - 1].via = "shutdown"
            => \/ execLog[i - 1].slot < execLog[i].slot
               \/ execLog[i - 1].slot = execLog[i].slot /\ execLog[i].pos = execLog[i - 1].pos + 1
    /\ \A i \in 1..Len(execLog) :
         i > 1 /\ execLog[i - 1].via = "shutdown" => execLog[i].via = "shutdown"
    /\ cpc = "finished" => cycle_buffer = <<>> /\ \A e \in SentEvents : Count(ExecutedEvents, e) >= 1

C4_Witness ==
    /\ cpc = "finished"
    /\ \E i, j \in 1..Len(execLog) :
         /\ execLog[i].via = "shutdown" /\ execLog[j].via = "shutdown"
         /\ execLog[i].slot < execLog[j].slot

\* C5: an event executed by a next-frame flush outlived every frame
\* submitted before it was sent and the frame in which it was sent; an event
\* executed by the shutdown flush is executed with the GPU queue idle.
C5_NoFrameInFlight ==
    \A i \in 1..Len(execLog) :
       /\ execLog[i].via = "frame" => execLog[i].hazard = 0 /\ ~execLog[i].kpending
       /\ execLog[i].via = "shutdown" => execLog[i].idle

C5_Witness ==
    /\ gpu_frames > 0
    /\ \E i \in 1..Len(execLog) : execLog[i].via = "frame"
    /\ \E e \in Range(Pending) : hazard[e] > 0

\* C6: a prepared asset that Publish installed and that is no longer in the
\* table was passed to destroy_asset exactly once and each of its events was
\* sent once; one still in the table was never destroyed; an identity has at
\* most one entry, and before shutdown it is the one installed last.
C6_SupersededDestroyedOnce ==
    /\ \A h \in Handles : Cardinality({en \in lookup : en[1] = h}) <= 1
    /\ \A i \in 1..Len(installLog) :
         LET h == installLog[i][1]
             p == installLog[i][2]
             last == \A j \in 1..Len(installLog) : installLog[j][1] = h => j <= i
         IN /\ <<h, p>> \in lookup => destroyed[p] = 0 /\ Occurrences(<<"Image", p>>) = 0
            /\ <<h, p>> \notin lookup =>
                  /\ destroyed[p] = 1
                  /\ Occurrences(<<"ImageView", p>>) = 1
                  /\ Occurrences(<<"Image", p>>) = 1
            /\ mainpc \notin {"join", "exited"} => (last <=> <<h, p>> \in lookup)

C6_Witness ==
    /\ mainpc \notin {"join", "exited"}
    /\ \E i \in 1..Len(installLog) :
         /\ i > 1 /\ installLog[i][3] = 2
         /\ installLog[i - 1][1] = installLog[i][1]
         /\ destroyed[installLog[i - 1][2]] = 1
         /\ <<installLog[i][1], installLog[i][2]>> \in lookup

\* C7: two prepared assets of the same identity are installed in the order in
\* which Extract sent their snapshots.
C7_InstallOrder ==
    \A i, j \in 1..Len(installLog) :
       i < j /\ installLog[i][1] = installLog[j][1] => installLog[i][2] < installLog[j][2]

C7_Witness ==
    \E i, j \in 1..Len(installLog) :
       i < j /\ installLog[i][1] = installLog[j][1] /\ installLog[i][2] < installLog[j][2]

\* the table holds, for every identity with a snapshot in the pipeline, the
\* asset prepared from the identity's last snapshot
LatestInstalled ==
    \A h \in Handles :
       LET ps == {en[2] : en \in {en \in InPipeline : en[1] = h}}
       IN ps # {} => \E p \in ps : (\A q \in ps : q <= p) /\ <<h, p>> \in lookup

\* C8: while the worker keeps running and the frame loop keeps publishing,
\* after the last edit the table eventually holds, and then keeps, the asset
\* prepared from each identity's last extracted snapshot.
C8_LatestEventuallyInstalled == <>[](Stopped \/ LatestInstalled)

C8_Witness ==
    /\ ~Stopped
    /\ nedits = MaxEdits /\ asset_events = <<>>
    /\ \E i, j \in 1..Len(installLog) :
         /\ i < j /\ installLog[i][1] = installLog[j][1]
         /\ <<installLog[j][1], installLog[j][2]>> \in lookup
    /\ LatestInstalled

\* C9: a main-thread stage that is due can always run, whatever the Prepare
\* worker is doing: Extract's send and Publish's drain never wait for it.
C9_MainNeverWaitsForWorker ==
    mainpc = "extract" =>
       /\ "extract_vulkan_asset" \in stage_todo => ENABLED extract_vulkan_asset
       /\ "publish_vulkan_asset" \in stage_todo => ENABLED publish_vulkan_asset

C9_Witness ==
    /\ wpc = "preparing"
    /\ recv_prepared = <<>>
    /\ ranBusy = {"extract_vulkan_asset", "publish_vulkan_asset"}

\* C10: after the Prepare worker has died of a panic the main thread keeps
\* running: no later Extract or Publish run fails.
C10_MainSurvivesWorkerPanic == wpc = "dead" => mainpc # "panicked"

\* C11: a composed asset whose dependencies have all become available is
\* eventually extracted, prepared and published: once every pipeline asset's
\* shaders are loaded, every pipeline asset eventually has an entry in the
\* table of prepared assets.
C11_ComposedEventuallyPublished ==
    (assets # {} /\ \A h \in assets : extract_asset(h))
        ~> (\A h \in assets : \E en \in lookup : en[1] = h)

\* the bytes the three regions of a recomputation need
SbtSize(regions) == regions.raygen_region.size + regions.miss_region.size + regions.hit_region.size

\* C12: a recomputation of the SBT with the same number of hit records and
\* the same pipeline as the one before yields the same sizes and strides of
\* the raygen, miss and hit regions; and whenever the bytes needed equal the
\* size of the buffer held, that buffer is kept: none is created and no
\* destruction event is enqueued (the buffer held is never in the channel).
C12_SbtIdempotent ==
    /\ Len(sbtLog) = 2 =>
         /\ sbtLog[1].count = sbtLog[2].count /\ sbtLog[1].pipeline = sbtLog[2].pipeline
               => sbtLog[2].regions = sbtLog[1].regions
         /\ SbtSize(sbtLog[2].regions) = sbtLog[1].data.nr_elements
               => /\ sbtLog[2].data = sbtLog[1].data
                  /\ ~sbtLog[2].resized
                  /\ sbtLog[2].sent = <<>>
    /\ sbt.data.handle # 0 => Count(cleanup_chan, <<"Buffer", sbt.data.handle>>) = 0

C12_Witness ==
    /\ Len(sbtLog) = 2
    /\ sbtLog[1].count = sbtLog[2].count /\ sbtLog[1].pipeline = sbtLog[2].pipeline
    /\ sbtLog[2].count > 1
    /\ sbtLog[2].data.handle # 0 /\ sbtLog[2].data = sbtLog[1].data
    /\ sbtLog[1].resized

\* C13: after every update_sbt the sizes of the raygen, miss and hit regions
\* are multiples of the device's group base alignment, for every number of
\* hit records and every power-of-two handle and base alignment.
C13_RegionSizesBaseAligned ==
    SbtRuns > 0 =>
       /\ sbt.raygen_region.size % rtprops.shader_group_base_alignment = 0
       /\ sbt.miss_region.size % rtprops.shader_group_base_alignment = 0
       /\ sbt.hit_region.size % rtprops.shader_group_base_alignment = 0

C13_Witness ==
    /\ SbtRuns > 0
    /\ sbtLog[Len(sbtLog)].count = 3
    /\ rtprops.shader_group_base_alignment = 64
    /\ rtprops.shader_group_handle_alignment = 8
    /\ sbt.miss_region.size > sbt.miss_region.stride
    /\ sbt.hit_region.size = 192

\* C14: after every update_sbt the stride of each of the three regions is a
\* multiple of the device's handle alignment, for every pair of handle and
\* base alignment.
C14_StridesHandleAligned ==
    SbtRuns > 0 =>
       /\ sbt.raygen_region.stride % rtprops.shader_group_handle_alignment = 0
       /\ sbt.miss_region.stride % rtprops.shader_group_handle_alignment = 0
       /\ sbt.hit_region.stride % rtprops.shader_group_handle_alignment = 0

\* C15: after a completed update_sbt the sphere record is hit record 0 and
\* triangle_offsets has exactly one entry per prepared mesh, with distinct
\* indices in 1..M, each the position at which the mesh's record was
\* written, and no entry for any other identity.
C15_TriangleOffsets ==
    SbtRuns > 0 =>
       LET last == sbtLog[Len(sbtLog)]
           M == Cardinality(last.meshes)
       IN /\ last.written[0 + 1] = <<"Sphere", 0>>
          /\ Len(last.written) = M + 1
          /\ {en[1] : en \in sbt.triangle_offsets} = last.meshes
          /\ Cardinality(sbt.triangle_offsets) = M
          /\ \A en \in sbt.triangle_offsets :
                /\ en[2] \in 1..M
                /\ last.written[en[2] + 1] = <<"Triangle", en[1]>>
          /\ \A e1, e2 \in sbt.triangle_offsets : e1[2] = e2[2] => e1 = e2

C15_Witness ==
    /\ Len(sbtLog) = 2
    /\ Cardinality(sbtLog[1].meshes) = 1
    /\ Cardinality(sbtLog[2].meshes) = 2
    /\ <<2, 1>> \in sbt.triangle_offsets /\ <<1, 2>> \in sbt.triangle_offsets

\* the steps of one update_scene call that touch a given buffer
CreatesOf(entry, buffer) ==
    Cardinality({i \in 1..Len(entry.ops) : entry.ops[i] = <<"create", buffer>>})

SendsOf(entry, ev) ==
    Cardinality({i \in 1..Len(entry.ops) : entry.ops[i] = <<"send", ev>>})

\* C16 as stated: update_scene recreates the instance buffer if and only if
\* the number of instances differs from the buffer's element count.
C16_InstanceBufferIffCountDiffers ==
    \A i \in 1..Len(sceneLog) :
       LET e == sceneLog[i]
       IN (e.after.instance_buffer # e.before.instance_buffer)
             <=> (e.instances # e.before.instance_buffer.nr_elements)

\* C16 amended: update_scene recreates the instance buffer if and only if
\* the instance list is not empty and its length differs from the buffer's
\* element count; it then creates it once, with that many elements, after
\* enqueueing the old one; with an equal count the buffer is kept, nothing
\* is created or enqueued for it, and its contents are rewritten.
C16_InstanceBufferIffNonEmptyCountDiffers ==
    \A i \in 1..Len(sceneLog) :
       LET e == sceneLog[i]
           differs == e.instances # 0 /\ e.instances # e.before.instance_buffer.nr_elements
       IN /\ (e.after.instance_buffer # e.before.instance_buffer) <=> differs
          /\ differs =>
                /\ e.after.instance_buffer.nr_elements = e.instances
                /\ CreatesOf(e, e.after.instance_buffer) = 1
                /\ SendsOf(e, <<"Buffer", e.before.instance_buffer.handle>>) >= 1
          /\ e.instances # 0 /\ ~differs =>
                /\ CreatesOf(e, e.after.instance_buffer) = 0
                /\ SendsOf(e, <<"Buffer", e.before.instance_buffer.handle>>) = 0
          /\ e.instances # 0 =>
                /\ e.after.contents = <<e.instances, e.pose>>
                /\ \E k \in 1..Len(e.ops) : e.ops[k] = <<"write", e.after.instance_buffer.handle>>

C16_Witness ==
    /\ Len(sceneLog) >= 2
    /\ sceneLog[1].before.instance_buffer.nr_elements = 0
    /\ sceneLog[1].instances = 5
    /\ sceneLog[1].after.instance_buffer.nr_elements = 5
    /\ sceneLog[2].instances = 5
    /\ sceneLog[2].pose # sceneLog[1].pose
    /\ sceneLog[2].after.instance_buffer = sceneLog[1].after.instance_buffer
    /\ sceneLog[2].after.contents # sceneLog[1].after.contents

\* C17: every update_scene call with a non-empty instance list enqueues the
\* destruction of the previous TLAS object and creates a new one, whether or
\* not anything changed; the TLAS backing buffer and the scratch buffer are
\* each replaced exactly when the size needed differs from the buffer's.
C17_TlasAlwaysRebuilt ==
    \A i \in 1..Len(sceneLog) :
       LET e == sceneLog[i]
           sizes == BuildSizes(e.instances)
       IN e.instances # 0 =>
            /\ SendsOf(e, <<"AccelerationStructure", e.before.tlas.handle>>) = 1
            /\ e.after.tlas.handle # e.before.tlas.handle
            /\ \E k \in 1..Len(e.ops) : e.ops[k] = <<"create_tlas", e.after.tlas.handle>>
            /\ (e.after.tlas.buffer # e.before.tlas.buffer)
                  <=> (sizes.acceleration_structure_size # e.before.tlas.buffer.nr_elements)
            /\ (e.after.scratch_buffer # e.before.scratch_buffer)
                  <=> (sizes.build_scratch_size + ScratchAlignment
                          # e.before.scratch_buffer.nr_elements)
            /\ e.after.tlas.buffer.nr_elements = sizes.acceleration_structure_size
            /\ e.after.scratch_buffer.nr_elements = sizes.build_scratch_size + ScratchAlignment

C17_Witness ==
    /\ Len(sceneLog) = 3
    /\ sceneLog[2].instances = sceneLog[1].instances /\ sceneLog[2].pose = sceneLog[1].pose
    /\ sceneLog[2].after.tlas.handle # sceneLog[1].after.tlas.handle
    /\ sceneLog[2].after.tlas.buffer = sceneLog[1].after.tlas.buffer
    /\ sceneLog[3].instances # 0
    /\ sceneLog[3].after.tlas.buffer = sceneLog[2].after.tlas.buffer
    /\ sceneLog[3].after.scratch_buffer # sceneLog[2].after.scratch_buffer

\* C18: an update_scene call with an empty instance list changes nothing: no
\* build is submitted, no buffer is created, no destruction event is
\* enqueued, and the scene's TLAS and buffers stay as they were.
C18_EmptyIsNoOp ==
    [][(Len(sceneLog') > Len(sceneLog) /\ sceneLog'[Len(sceneLog')].instances = 0)
          => /\ UNCHANGED <<scene, cleanup_chan, bufVars>>
             /\ sceneLog'[Len(sceneLog')].ops = <<>>]_vars

C18_Witness ==
    /\ Len(sceneLog) >= 2
    /\ sceneLog[Len(sceneLog)].instances = 0
    /\ scene.tlas.handle # 0
    /\ scene.instance_buffer.nr_elements > 0

\* the position of the build among the steps of one update_scene call
BuildAt(e) == CHOOSE k \in 1..Len(e.ops) : e.ops[k][1] = "build"

\* C19: whenever update_scene replaces the instance buffer, the TLAS backing
\* buffer or the scratch buffer, the destruction event of the old one is
\* enqueued before the build is submitted, and the build targets the new
\* resources.
C19_DestroyBeforeBuild ==
    \A i \in 1..Len(sceneLog) :
       LET e == sceneLog[i]
       IN e.instances # 0 =>
            /\ Cardinality({k \in 1..Len(e.ops) : e.ops[k][1] = "build"}) = 1
            /\ \A k \in 1..Len(e.ops) : e.ops[k][1] = "send" => k < BuildAt(e)
            /\ \A b \in {"instance_buffer", "scratch_buffer"} :
                  e.after[b] # e.before[b] => SendsOf(e, <<"Buffer", e.before[b].handle>>) >= 1
            /\ e.after.tlas.buffer # e.before.tlas.buffer
                  => SendsOf(e, <<"Buffer", e.before.tlas.buffer.handle>>) >= 1
            /\ e.ops[BuildAt(e)][2] =
                  [dst |-> e.after.tlas.handle, backing |-> e.after.tlas.buffer.handle,
                   scratch |-> e.after.scratch_buffer.handle,
                   instances |-> e.after.instance_buffer.handle]

C19_Witness ==
    \E i \in 1..Len(sceneLog) :
       LET e == sceneLog[i]
       IN /\ e.before.scratch_buffer.handle # 0
          /\ e.before.instance_buffer.handle # 0
          /\ e.before.tlas.buffer.handle # 0
          /\ e.after.scratch_buffer # e.before.scratch_buffer
          /\ e.after.instance_buffer # e.before.instance_buffer
          /\ e.after.tlas.buffer # e.before.tlas.buffer
          /\ Count(cleanup_chan, <<"Buffer", e.before.scratch_buffer.handle>>) = 1

\* the entries buffer_to_allocation holds for a native handle
EntriesOf(handle) == {en \in buffer_to_allocation : en[1] = handle}

\* C20: in every reachable state a buffer created with element count 0 has
\* the null handle and no entry in buffer_to_allocation, and a buffer created
\* with a positive element count has exactly one entry from its creation
\* until it is destroyed, by destroy_buffer or by the cleanup worker, and
\* none afterwards.
C20_AllocationPerLiveBuffer ==
    \A i \in 1..Len(buffers) :
       LET b == buffers[i]
       IN /\ b.nr_elements = 0 => b.handle = 0 /\ EntriesOf(0) = {}
          /\ b.nr_elements > 0 =>
                /\ b.handle # 0
                /\ Cardinality(EntriesOf(b.handle)) = (IF b.handle \in freed THEN 0 ELSE 1)
                /\ \A j \in 1..Len(buffers) : buffers[j].handle = b.handle => j = i

C20_Witness ==
    /\ Len(buffers) = 2
    /\ buffers[1].nr_elements > 0
    /\ buffers[1].handle \in freed
    /\ \E k \in 1..Len(execLog) : execLog[k].ev = <<"Buffer", buffers[1].handle>>
    /\ buffers[2].nr_elements > 0
    /\ 2 \in released
    /\ buffers[2].handle \notin freed
    /\ EntriesOf(buffers[2].handle) # {}

\* C21: no consumer call on a buffer created with element count 0 fails:
\* mapping it or uploading from it neither panics nor faults.
C21_NullBufferIsAbsent ==
    (use.op # "none" /\ buffers[use.at].nr_elements = 0) => use.result \notin {"panic", "fault"}

\* the events destroy_asset sent for the prepared mesh
MeshSent == Range(MeshDestroyEvents(prep.blas, CHOOSE order \in Perms(prep.blas.textures) : TRUE))

\* destroy_asset ran and the cleanup worker executed every event it sent
MeshSettled == prep.pc = "destroyed" /\ MeshSent \subseteq Range(ExecutedEvents)

\* C22: once a mesh has been prepared, passed to destroy_asset, and every
\* event sent for it has been executed, buffer_to_allocation and
\* image_to_allocation hold what they held when prepare_asset was called,
\* and every buffer and image created by the preparation was destroyed
\* exactly once, directly or by the cleanup worker.
C22_PrepareDestroyRestoresMaps ==
    MeshSettled =>
        /\ buffer_to_allocation = prep.before.buffers
        /\ image_to_allocation = prep.before.images
        /\ \A c \in prep.created :
              (c[1] \in {"Buffer", "Image"} /\ c[2] # 0)
                 => Count(prep.direct, c) + Count(ExecutedEvents, c) = 1

C22_Witness ==
    /\ MeshSettled
    /\ Len(prep.mesh) = 2
    /\ prep.blas.textures # {}
    /\ Cardinality({c \in prep.created : c[1] = "Buffer"}) >= 12
    /\ \E c \in prep.created : c[1] = "Image" /\ Count(ExecutedEvents, c) = 1

\* a primitive the preparation must reject
Malformed(p) ==
    \/ p.shape.index_count % 3 # 0
    \/ p.shape.pos_len # p.shape.vertex_count
    \/ p.shape.idx_len # p.shape.index_count

\* C23: a mesh with a primitive whose index count is no multiple of 3, or
\* whose position or index reader is not as long as declared, fails an
\* assertion before any acceleration-structure build is recorded, and no
\* prepared asset for it is sent to Publish.
C23_MalformedMeshNeverPrepared ==
    (prep.pc # "idle" /\ \E i \in 1..Len(prep.mesh) : Malformed(prep.mesh[i]))
        => /\ prep.pc = "dead"
           /\ wpc = "dead"
           /\ "submit_build" \notin Range(prep.log)
           /\ prep.acc.handle = 0
           /\ recv_prepared = <<>>

C23_Witness ==
    /\ prep.pc = "dead"
    /\ Len(prep.mesh) = 2
    /\ ~Malformed(prep.mesh[1])
    /\ prep.mesh[2].shape.index_count % 3 # 0
    /\ prep.log = <<"panic">>

\* the position of a step in the history of the preparation
LogPos(step) == CHOOSE i \in 1..Len(prep.log) : prep.log[i] = step

\* C24: the original acceleration structure and its backing buffer are
\* destroyed only after the build completed, the compacted size was read
\* and the compacting copy completed on the GPU, and the prepared mesh
\* refers to the compacted structure, never to the destroyed original.
C24_OriginalDestroyedAfterCompaction ==
    /\ "destroy_original" \in Range(prep.log) =>
          /\ {"build_complete", "query_complete", "query_read", "copy_complete"}
                \subseteq Range(prep.log)
          /\ LogPos("submit_build") < LogPos("build_complete")
          /\ LogPos("build_complete") < LogPos("query_complete")
          /\ LogPos("query_complete") < LogPos("query_read")
          /\ LogPos("query_read") < LogPos("submit_copy")
          /\ LogPos("submit_copy") < LogPos("copy_complete")
          /\ LogPos("copy_complete") < LogPos("destroy_original")
    /\ <<"AccelerationStructure", prep.acc.handle>> \in Range(prep.direct)
          => "destroy_original" \in Range(prep.log)
    /\ prep.pc \in {"materials", "done", "destroyed"} =>
          /\ prep.blas.acceleration_structure = prep.compacted
          /\ prep.blas.acceleration_structure.handle # prep.acc.handle
          /\ <<"AccelerationStructure", prep.blas.acceleration_structure.handle>>
                \notin Range(prep.direct)
          /\ <<"Buffer", prep.blas.acceleration_structure.buffer.handle>>
                \notin Range(prep.direct)

C24_Witness ==
    /\ prep.pc = "done"
    /\ <<"AccelerationStructure", prep.acc.handle>> \in Range(prep.direct)
    /\ prep.compacted.buffer.nr_elements < prep.acc.buffer.nr_elements
    /\ prep.blas.acceleration_structure.handle = prep.compacted.handle

\* C25: every acceleration-structure build command is given a scratch
\* address that is a multiple of the device's scratch offset alignment,
\* whatever address the scratch buffer was allocated at.
C25_ScratchAddressAligned ==
    scratch_use.builder # "none" => scratch_use.device_address % scratch_use.alignment = 0

\* the builders that round the address always give an aligned one
MeshAndTlasScratchAligned ==
    scratch_use.builder \in {"mesh", "tlas"}
        => /\ scratch_use.device_address % scratch_use.alignment = 0
           /\ scratch_use.device_address > scratch_use.address
           /\ scratch_use.device_address <= scratch_use.address + scratch_use.alignment


\* C26: in every interleaving of get_texture_descriptor_index calls, a view is
\* returned the same index by every call, two different views are never
\* returned the same index, and the map never holds another view under an
\* index that was returned
C26_ViewSlotsStableAndDistinct ==
    /\ \A a \in slotLog, b \in slotLog : (a[1] = b[1]) <=> (a[2] = b[2])
    /\ \A a \in slotLog : \A en \in g_descriptors.g_descriptor_map :
          (en[2] = a[2]) => (en[1] = a[1])
    /\ \A a \in slotLog : <<a[1], a[2]>> \in g_descriptors.g_descriptor_map

\* two views hold slots 0 and 1, one of them was returned from the memo, and
\* a second caller is waiting for the guard
C26_Witness ==
    /\ \E a \in slotLog, b \in slotLog : a[1] # b[1] /\ a[2] = 0 /\ b[2] = 1
    /\ \E a \in slotLog : a[3] = "memo"
    /\ \E t \in Threads, u \in Threads :
          thr[t].pc = "desc_lock" /\ thr[u].pc \in {"desc_lookup", "desc_insert"}

\* C27: a thread inside a queue submission, a presentation or a queue-idle
\* wait holds the queue mutex, and at most one thread is inside one
C27_QueueOpsUnderMutex ==
    \A t \in Threads : thr[t].pc \in QueuePositions
        => /\ queue = t
           /\ \A u \in Threads : thr[u].pc \in QueuePositions => u = t

\* the cleanup worker is inside its queue-idle wait while the main thread and
\* a Prepare worker are waiting to submit
C27_Witness ==
    /\ thr["cleanup"].pc = "wait_idle"
    /\ thr["main"].pc = "frame_queue_lock"
    /\ thr["mesh"].pc = "asset_queue_lock"

\* C28: no two threads allocate from or record into command buffers of the
\* same command pool at the same time
C28_NoPoolShared ==
    \A t \in Threads, u \in Threads :
        (t # u /\ PoolAt(thr[t].pc) # "none") => PoolAt(thr[t].pc) # PoolAt(thr[u].pc)

\* the asset pool by itself is never shared: its mutex is held from the
\* allocation to the end of run_asset_commands
AssetPoolNotShared ==
    \A t \in Threads, u \in Threads :
        (t # u /\ PoolAt(thr[t].pc) = "asset_command_pool") => PoolAt(thr[u].pc) # "asset_command_pool"

\* every acceleration structure the scene built, with its backing buffer
SceneBacking ==
    {<<sceneLog[i].after.tlas.handle, sceneLog[i].after.tlas.buffer.handle>> :
        i \in {k \in 1..Len(sceneLog) : sceneLog[k].instances # 0}}

\* C29: for every acceleration structure of the scene, the event destroying
\* the structure is enqueued before the event destroying its backing buffer,
\* on a rebuild and at shutdown
C29_StructureBeforeBackingBuffer ==
    \A i \in 1..Len(cleanup_chan), j \in 1..Len(cleanup_chan) :
        (/\ cleanup_chan[i][1] = "AccelerationStructure"
         /\ cleanup_chan[j][1] = "Buffer"
         /\ <<cleanup_chan[i][2], cleanup_chan[j][2]>> \in SceneBacking) => i < j

\* the rebuilds by themselves keep the order: update_scene sends the old
\* structure before it replaces the backing buffer
RebuildSendsStructureFirst ==
    mainpc = "update" => C29_StructureBeforeBackingBuffer

\* the steps of all update_scene calls so far, in order
SceneHistory == Flatten([i \in 1..Len(sceneLog) |-> sceneLog[i].ops])

\* a step maps, builds with, builds into or sends the native handle h
Touches(op, h) ==
    \/ op[1] = "write" /\ op[2] = h
    \/ op[1] = "send" /\ op[2][2] = h
    \/ op[1] = "build" /\ h \in {op[2].dst, op[2].backing, op[2].scratch, op[2].instances}

\* the native handles the scene and the SBT hold
HeldHandles ==
    {scene.tlas.handle, scene.tlas.buffer.handle, scene.instance_buffer.handle,
     scene.scratch_buffer.handle, sbt.data.handle} \ {0}

SendOrder ==
    [k \in 1..nother |-> <<"Buffer", k>>]
        \o (IF mainpc \in {"join", "exited"} THEN cleanup_render_resources(FramesInFlight)
            ELSE <<>>)

\* the destruction events still in the channel, in order
Unreceived == SelectSeq(cleanup_chan, LAMBDA e : ~IsSignal(e))

\* C32: over next-frame flushes and the shutdown flush together, the events
\* are executed in the order in which the worker received them: what was
\* executed, then what waits in the ring from the oldest list to the newest,
\* then what is still in the channel, is the sequence of the sends
C32_GlobalFifo == ExecutedEvents \o Pending \o Unreceived = SendOrder

\* the worker has finished after executing events of two different
\* next-frame flushes and of the shutdown flush
C32_Witness ==
    /\ cpc = "finished"
    /\ \E i \in 1..Len(execLog), j \in 1..Len(execLog) :
          /\ i + 1 < j
          /\ execLog[i].via = "frame"
          /\ execLog[i + 1].via = "frame"
          /\ execLog[j].via = "shutdown"
          /\ execLog[j].ev[1] = "Buffer" /\ execLog[j].ev[2] <= MaxOther

\* C38: once flush_and_die has sent SignalShutdown, the worker eventually
\* has executed every event sent before the signal and has exited, and the
\* join has returned; an event sent behind the signal is never executed
C38_FlushAndDieTerminates ==
    /\ (mainpc = "join") ~>
          (/\ mainpc = "exited"
           /\ cpc = "finished"
           /\ ExecutedEvents = SendOrder)
    /\ [](\A i \in 1..Len(execLog) : execLog[i].ev # LateEvent)

\* the join has returned after a shutdown flush that executed events, and an
\* event sent behind the signal is left in the channel
C38_Witness ==
    /\ mainpc = "exited"
    /\ cpc = "finished"
    /\ cleanup_chan = <<LateEvent>>
    /\ \E i \in 1..Len(execLog) : execLog[i].via = "shutdown" /\ execLog[i].ev[2] <= MaxOther
    /\ \E i \in 1..Len(execLog) : execLog[i].via = "frame"

\* C39: until the shutdown flush the ring holds exactly three lists, and
\* neither a list nor the execution history ever holds SignalNextFrame or
\* SignalShutdown, so pop_front never fails and execute never meets a signal
C39_RingOfThreeWithoutSignals ==
    /\ cpc \in {"recv", "wait_idle"} => Len(cycle_buffer) = RingSize
    /\ \A i \in 1..Len(cycle_buffer) : \A k \in 1..Len(cycle_buffer[i]) :
          ~IsSignal(cycle_buffer[i][k])
    /\ \A i \in 1..Len(execLog) : ~IsSignal(execLog[i].ev)

\* the lists were recycled by next-frame signals, two lists of the ring hold
\* events, and the next message is a signal
C39_Witness ==
    /\ cpc = "recv"
    /\ \E i \in 1..Len(execLog) : execLog[i].via = "frame"
    /\ Cardinality({i \in 1..Len(cycle_buffer) : cycle_buffer[i] # <<>>}) >= 2
    /\ cleanup_chan # <<>> /\ IsSignal(Head(cleanup_chan))

\* C36: every prepared asset the worker produced is handed to destroy_asset
\* exactly once by the time the program has exited: the installed ones, and
\* the ones left in the prepared channel when shutdown ran
C36_EveryPreparedDestroyedOnce ==
    mainpc = "exited" =>
        /\ \A i \in 1..Len(installLog) : destroyed[installLog[i][2]] = 1
        /\ \A k \in 1..Len(recv_prepared) : destroyed[recv_prepared[k][2]] = 1

\* the installed assets by themselves are destroyed exactly once at exit
InstalledDestroyedOnce ==
    mainpc = "exited" => \A i \in 1..Len(installLog) : destroyed[installLog[i][2]] = 1

\* the identities with an entry in the lookup table
LookupIds(map) == {en[1] : en \in map}

\* the notifications of a list that are not Removed
NotRemoved(events) == {i \in 1..Len(events) : events[i].kind # "Removed"}

\* C40: an Extract run sends at most one snapshot per Created or Modified
\* notification and none for a Removed one, and when all it reads are Removed
\* notifications it leaves both channels and the lookup table as they were;
\* no step but the shutdown playbook takes an identity out of the table
C40_RemovedChangesNothing ==
    [][/\ (asset_events # <<>> /\ asset_events' = <<>>) =>
              /\ nsnap' - nsnap <= Cardinality(NotRemoved(asset_events))
              /\ NotRemoved(asset_events) = {} =>
                    /\ send_extracted' = send_extracted
                    /\ cleanup_chan' = cleanup_chan
                    /\ lookup' = lookup
       /\ mainpc' # "join" => LookupIds(lookup) \subseteq LookupIds(lookup')]_vars

\* an identity is still in the table after the host removed its asset and
\* Extract read the Removed notification
C40_Witness ==
    /\ mainpc = "render"
    /\ asset_events = <<>>
    /\ \E en \in lookup : en[1] \notin assets
    /\ send_extracted = <<>> /\ recv_prepared = <<>> /\ wpc = "recv"

\* C35: the old and the new TLAS never alias: when update_scene creates a new
\* TLAS object while the event destroying the previous object is still
\* pending, the new object's backing buffer is not the buffer the previous
\* object occupies
C35_OldAndNewNeverAlias ==
    \A i \in 1..Len(sceneLog) :
        LET call == sceneLog[i]
        IN (/\ call.ops # <<>>
            /\ call.before.tlas.handle # 0
            /\ call.after.tlas.handle # call.before.tlas.handle
            /\ Count(cleanup_chan, <<"AccelerationStructure", call.before.tlas.handle>>) > 0)
           => call.after.tlas.buffer.handle # call.before.tlas.buffer.handle

\* the submissions of prepare_asset, by the position the worker waits at
Submissions == {"upload", "build", "reset", "query", "copy", "materials"}

C34_TraceOnlyWhenReady ==
    /\ \A i \in 1..Len(trace.frame) :
          trace.frame[i].traced =>
              /\ trace.frame[i].pipeline # 0
              /\ trace.frame[i].skybox
              /\ trace.frame[i].tlas # 0
              /\ trace.frame[i].sbt_address # 0
    /\ mainpc = "render" => ENABLED render

\* render has recorded a frame with the trace
C34_Witness ==
    /\ trace.frame # <<>>
    /\ trace.frame[1].traced
    /\ mainpc = "update"
    /\ gpu_frames > 0

\* a frame went out without the trace while the pipeline and the skybox
\* were present and the TLAS was not built
C34_SkippedWitness ==
    /\ trace.frame # <<>>
    /\ ~trace.frame[1].traced
    /\ trace.frame[1].pipeline # 0 /\ trace.frame[1].skybox /\ trace.frame[1].tlas = 0
    /\ mainpc = "update"

\* C31: whenever render records a trace-rays command, every mesh instance of
\* the TLAS it traces carries the hit_group_offset that the SBT of the same
\* command gives to the instance's mesh
C31_TlasOffsetsMatchSbt ==
    \A i \in 1..Len(trace.frame) :
        trace.frame[i].traced =>
            \A inst \in trace.frame[i].instances :
                inst.mesh # 0 => <<inst.mesh, inst.hit_offset>> \in trace.frame[i].triangle_offsets

\* a reachable state: the stale frame arises from a publish; the last
\* update_sbt ran over more meshes than the one before it, and the frame
\* traced a TLAS built between the two
StaleAfterPublish ==
    /\ Len(sbtLog) = 2
    /\ sbtLog[1].meshes # sbtLog[2].meshes
    /\ sbtLog[1].meshes \subseteq sbtLog[2].meshes
    /\ trace.frame # <<>>
    /\ trace.frame[1].traced
    /\ trace.frame[1].triangle_offsets = sbt.triangle_offsets
    /\ \E inst \in trace.frame[1].instances :
          /\ inst.mesh # 0
          /\ <<inst.mesh, inst.hit_offset>> \notin trace.frame[1].triangle_offsets
    /\ mainpc = "update"

\* the threads holding the lock a thread is waiting for at its position
HoldersAwaited(t) ==
    LET pc == thr[t].pc
    IN CASE pc = "asset_pool_lock" -> {asset_command_pool} \ {"free"}
         [] pc \in {"asset_queue_lock", "single_lock", "frame_queue_lock", "present_lock",
                    "idle_lock"} -> {queue} \ {"free"}
         [] pc = "desc_lock" -> {g_descriptors_lock} \ {"free"}
         [] pc = "alloc_write_lock" -> ({alloc.writer} \ {"free"}) \cup alloc.readers
         [] pc = "alloc_read_lock" -> {alloc.writer} \ {"free"}
         [] OTHER -> {}

\* C37: no set of threads is deadlocked on the queue mutex, the asset command
\* pool mutex, the allocator lock and the descriptor mutex: there is no
\* non-empty set of threads each of which waits for a lock whose holders are
\* all in the set
C37_NoLockDeadlock ==
    \A S \in SUBSET Threads :
        S # {} => \E t \in S : HoldersAwaited(t) = {} \/ ~(HoldersAwaited(t) \subseteq S)

\* the locks are contended and nested: a worker waits for the asset command
\* pool held by another worker, which waits for the queue held by a third
\* thread, while a writer of the allocator waits for a reader
C37_Witness ==
    \E t \in Threads, u \in Threads, v \in Threads :
        /\ t # u /\ u # v /\ t # v
        /\ thr[t].pc = "asset_pool_lock" /\ asset_command_pool = u
        /\ thr[u].pc = "asset_queue_lock" /\ queue = v
        /\ \E w \in Threads : thr[w].pc = "alloc_write_lock" /\ alloc.readers # {}
====
